---------------------------- MODULE Spec2Model ----------------------------
(***************************************************************************)
(* Scheduled-message lifecycle and reaction-correlation engine of the      *)
(* generalized bot variant (src/index.js, lines 884-2031).                 *)
(*                                                                         *)
(* Time is counted in whole seconds of server-local civil time; the code's *)
(* millisecond timestamps are 1000 times these values (every component the *)
(* code feeds to Date is a whole second).  The server zone is taken to    *)
(* have a fixed offset, so local civil seconds differ from epoch seconds   *)
(* by a constant.                                                          *)
(*                                                                         *)
(* Definitions range over the data model of the persisted file: a field is *)
(* either absent or holds a value of its documented type.  An optional     *)
(* value is the empty tuple (absent, undefined) or a one-element tuple.    *)
(***************************************************************************)
EXTENDS Integers, Sequences, FiniteSets, Bags, TLC

VARIABLES
    startup,                    \* what module load found on disk
    file,                       \* assets/scheduledMessages.json: text and stat
    written,                    \* the set the process last wrote to it, if it did
    watchPrev,                  \* the stat fs.watchFile saw at its last poll
    scheduledMessages,          \* in-memory definition set
    cronJobs,                   \* handles kept for reloading
    live,                       \* triggers registered with node-cron / the timer list
    nextHandle,                 \* identity of the next handle the runtime creates
    now,                        \* current time, in seconds
    armedAt,                    \* time and count of the scheduleAllMessages calls
    ready,                      \* the 'ready' event has been delivered
    req,                        \* last HTTP request to the CRUD endpoints
    res,                        \* last HTTP response of the CRUD endpoints
    sends,                      \* suspended invocations of sendScheduledMessage
    sendLog,                    \* send failures logged (lines 1076, 1098)
    started,                    \* invocations of sendScheduledMessage so far
    posted,                     \* messages the gateway has accepted, by id
    messageIdToScheduledConfig, \* message id -> definition that produced it
    respondedMessages,          \* message ids that already triggered a response
    handlers,                   \* suspended invocations of the reaction handler
    reactions,                  \* reaction-added events delivered so far
    passes,                     \* ids for which line 1242 found no entry, with counts
    outbox,                     \* response sends handed to the gateway
    alreadyLog,                 \* ids logged as "Already responded" (line 1243)
    errorLog,                   \* response failures logged (lines 1277, 1290)
    unhandled,                  \* exceptions that escaped a handler
    config,                     \* config.json: the persisted channel list, if the file exists
    imageData,                  \* per channel, the image infos stored for it, if any
    received,                   \* the messages delivered as messageCreate events
    replies,                    \* the replies and notices sent by the command handlers
    commands                    \* command handler invocations suspended at an await

vars == <<startup, file, written, watchPrev, scheduledMessages, cronJobs,
          live, nextHandle, now,
          armedAt, ready, req, res, sends, sendLog, started, posted,
          messageIdToScheduledConfig,
          respondedMessages, handlers, reactions, passes, outbox, alreadyLog,
          errorLog, unhandled, config, imageData, received, replies,
          commands>>

schedVars == <<startup, file, written,
               watchPrev, scheduledMessages, cronJobs, live, nextHandle,
               armedAt, ready, req, res>>
reactVars == <<posted, messageIdToScheduledConfig, respondedMessages, handlers,
               reactions, passes, outbox, alreadyLog, errorLog, unhandled>>
cmdVars == <<config, imageData, received, replies, commands>>

(***************************************************************************)
(* Bounds of the model.                                                    *)
(***************************************************************************)
MaxDefs == 2
MaxWrites == 2
MaxSends == 1
MaxReactions == 2
MaxCommands == 2
MaxFires == 2

Range(s) == { s[i] : i \in 1..Len(s) }

(***************************************************************************)
(* Optional values.                                                        *)
(***************************************************************************)
None == <<>>
Some(v) == <<v>>
IsSome(o) == Len(o) > 0

\* JavaScript truthiness of an optional number: undefined and 0 are falsy.
Truthy(o) == IsSome(o) /\ o[1] # 0

\* `x || 0` for an optional number (undefined and NaN are both absent).
OrZero(o) == IF IsSome(o) THEN o[1] ELSE 0

(***************************************************************************)
(* Date arithmetic: new Date(year, monthIndex, day, HH, MM, SS) in local   *)
(* time, as ECMAScript's MakeDay / MakeTime / MakeDate define it.          *)
(***************************************************************************)
SecPerDay == 24 * 60 * 60

\* Day number (days since 1970-01-01) of the first day of month m0 (0-based,
\* any integer) of year y, plus d - 1 days.
MakeDay(y, m0, d) ==
    LET ym  == y + (m0 \div 12)
        mn  == (m0 % 12) + 1
        yy  == IF mn <= 2 THEN ym - 1 ELSE ym
        era == yy \div 400
        yoe == yy - era * 400
        mp  == IF mn > 2 THEN mn - 3 ELSE mn + 9
        doy == (153 * mp + 2) \div 5
        doe == yoe * 365 + (yoe \div 4) - (yoe \div 100) + doy
    IN  era * 146097 + doe - 719468 + (d - 1)

\* The Date constructor maps a year argument 0..99 to 1900 + year.
FullYear(y) == IF y >= 0 /\ y <= 99 THEN 1900 + y ELSE y

NewDate(y, m0, d, HH, MM, SS) ==
    MakeDay(FullYear(y), m0, d) * SecPerDay + HH * 3600 + MM * 60 + SS

\* time.split(':').map(Number): component i of the split, absent when the
\* string has fewer components or the component is not numeric (NaN).
TimePart(time, i) == IF i <= Len(time) THEN time[i] ELSE None

\* Variant: the month is passed on as it is written, 1-based.
dateObj_MonthAsWritten(msg) ==
    NewDate(msg.year[1], msg.month[1], msg.day[1],
            OrZero(TimePart(msg.time, 1)),
            OrZero(TimePart(msg.time, 2)),
            OrZero(TimePart(msg.time, 3)))

\* The main fire timestamp of a date definition.
dateObj(msg) ==
    NewDate(msg.year[1], msg.month[1] - 1, msg.day[1],
            OrZero(TimePart(msg.time, 1)),
            OrZero(TimePart(msg.time, 2)),
            OrZero(TimePart(msg.time, 3)))

\* parseInt(daybefore, 10): an optional integer (absent = NaN).
daysBefore(msg) == msg.daybefore

\* Variant: the reminder is placed after the main timestamp.
remindDate_After(msg) == dateObj(msg) + daysBefore(msg)[1] * SecPerDay

\* The reminder timestamp, daysBefore days ahead of the main one.
remindDate(msg) == dateObj(msg) - daysBefore(msg)[1] * SecPerDay

(***************************************************************************)
(* Definitions of the persisted set.                                       *)
(***************************************************************************)
Resp(t, c) == [title |-> t, content |-> c]
Img(u) == [Imgurl |-> u]

Weekly(n, on, ch, rch, h, mi, s, dow, content, resps, imgOn, imgs) ==
    [type |-> "weekly", name |-> n, turnon |-> on, imageturnon |-> imgOn,
     channelId |-> ch, responseChannelId |-> rch,
     hour |-> h, minutes |-> mi, seconds |-> s, dayoftheweek |-> dow,
     timezone |-> Some("Europe/Stockholm"),
     year |-> None, month |-> None, day |-> None, time |-> None,
     daybefore |-> None,
     messageContent |-> content, automaticResponses |-> resps, Images |-> imgs]

DateDef(n, on, ch, rch, y, mo, d, t, db, content, resps) ==
    [type |-> "date", name |-> n, turnon |-> on, imageturnon |-> FALSE,
     channelId |-> ch, responseChannelId |-> rch,
     hour |-> None, minutes |-> None, seconds |-> None, dayoftheweek |-> None,
     timezone |-> None,
     year |-> y, month |-> mo, day |-> d, time |-> t, daybefore |-> db,
     messageContent |-> content, automaticResponses |-> resps, Images |-> <<>>]

HMS(h, m, s) == <<Some(h), Some(m), Some(s)>>

DefA == Weekly("A", TRUE, "c1", "r1", Some(0), Some(0), Some(0), Some(3),
               "remind A", <<Resp("a1", "A one"), Resp("a2", "A two")>>,
               TRUE, <<Img("imgA")>>)
DefB == Weekly("B", TRUE, "c1", "r2", Some(12), Some(0), Some(0), Some(2),
               "remind B", <<Resp("b1", "B one")>>, FALSE, <<Img("imgB")>>)
DefD == DateDef("D", TRUE, "c2", "r1", Some(2025), Some(1), Some(10),
                HMS(12, 0, 0), Some(3), "remind D", <<Resp("d1", "D one")>>)
\* Definition A, disabled.
DefOff == [DefA EXCEPT !.turnon = FALSE]

\* The value of automaticResponses or Images in a definition that has no
\* such key, and Array.isArray of a value of either key.
Undefined == << [undefined |-> TRUE] >>
IsArray(v) == v # Undefined

\* Definition B with an empty automaticResponses array, definition A without
\* the automaticResponses key, and definition A without the Images key.
DefMute == [DefB EXCEPT !.automaticResponses = <<>>]
DefBare == [DefA EXCEPT !.automaticResponses = Undefined]
DefPlain == [DefA EXCEPT !.Images = Undefined]

Catalogue == {DefA, DefB, DefD, DefOff}

\* The instants the clock visits.
TimePoints ==
    { NewDate(2025, 0, 1, 0, 0, 0),  NewDate(2025, 0, 7, 12, 0, 0),
      NewDate(2025, 0, 8, 0, 0, 0),  NewDate(2025, 0, 10, 12, 0, 0),
      NewDate(2025, 0, 11, 0, 0, 0) }

(***************************************************************************)
(* The persisted file.                                                     *)
(***************************************************************************)
\* The keys of a definition object, in the order they are written.
KeyOrder ==
    << "type", "name", "turnon", "imageturnon", "channelId",
       "responseChannelId", "hour", "minutes", "seconds", "dayoftheweek",
       "timezone", "year", "month", "day", "time", "daybefore",
       "messageContent", "automaticResponses", "Images" >>

\* The keys whose value may be undefined, and among them those held as
\* Some(v) when defined (time is held as the sequence of its components).
OptionalKeys ==
    { "hour", "minutes", "seconds", "dayoftheweek", "timezone", "year",
      "month", "day", "time", "daybefore" }
WrappedKeys == OptionalKeys \ {"time"}
\* The keys that hold an array.
ArrayKeys == {"automaticResponses", "Images"}

\* An array element that is null instead of an object, and its text.
NullEntry == [isNull |-> TRUE]
NullText == << <<"null">> >>

\* The text of one array element: the members "key": value of the object,
\* a member whose value is undefined being left out.
Members(d) ==
    IF d = NullEntry THEN NullText
    ELSE LET keys == SelectSeq(KeyOrder,
                               LAMBDA k : IF k \in ArrayKeys THEN IsArray(d[k])
                                          ELSE k \notin OptionalKeys \/ d[k] # <<>>)
         IN  [ i \in 1..Len(keys) |->
                 << keys[i],
                    IF keys[i] \in WrappedKeys THEN d[keys[i]][1]
                    ELSE d[keys[i]] >> ]

\* The object a sequence of members denotes: a key without member is
\* undefined.
Object(ms) ==
    IF ms = NullText THEN NullEntry
    ELSE [ k \in Range(KeyOrder) |->
             IF \E i \in 1..Len(ms) : ms[i][1] = k
             THEN LET i == CHOOSE j \in 1..Len(ms) : ms[j][1] = k
                  IN  IF k \in WrappedKeys THEN <<ms[i][2]>> ELSE ms[i][2]
             ELSE IF k \in ArrayKeys THEN Undefined ELSE <<>> ]

\* A text that lists the elements in reverse.
Json_Reversed(value) ==
    [kind |-> "json",
     value |-> [ i \in 1..Len(value) |-> Members(value[Len(value) + 1 - i]) ]]

\* The text of an array of definitions, and a text that is no JSON.
Json(value) ==
    [kind |-> "json", value |-> [ i \in 1..Len(value) |-> Members(value[i]) ]]
Garbage == [kind |-> "garbage", value |-> <<>>]
\* No file at the path.
Absent == [kind |-> "absent", value |-> <<>>]

\* At the path there is something the process cannot read as a file: a file
\* it has no permission to read, or a directory.
Unreadable == [kind |-> "unreadable", value |-> <<>>]

\* JSON.stringify(parsed, null, 2)
JSONstringify(value) == Json(value)

\* fs.readFileSync followed by JSON.parse: ok = FALSE stands for the error
\* thrown by the read of a missing file or by the parse.
JSONparse(text) ==
    IF text.kind = "json"
    THEN [ok |-> TRUE,
          value |-> [ i \in 1..Len(text.value) |-> Object(text.value[i]) ]]
    ELSE [ok |-> FALSE, value |-> <<>>]

Stat(f) == [mtime |-> f.mtime, ctime |-> f.ctime]

(***************************************************************************)
(* scheduleAllMessages                                                     *)
(***************************************************************************)
\* Variant: minutes are written before seconds.
cronStr_MinutesFirst(msg) ==
    <<msg.minutes, msg.seconds, msg.hour, None, None, msg.dayoftheweek>>

\* The six fields of `${seconds} ${minutes} ${hour} * * ${dayoftheweek}`;
\* None stands for "*".
cronStr(msg) ==
    <<msg.seconds, msg.minutes, msg.hour, None, None, msg.dayoftheweek>>

\* node-cron's reading of a six-field expression: second, minute, hour,
\* day of month, month, day of week (0 = Sunday), in the job's zone.
SecondOf(t) == t % 60
MinuteOf(t) == (t \div 60) % 60
HourOf(t) == (t \div 3600) % 24
\* 1970-01-01 was a Thursday.
WeekdayOf(t) == ((t \div SecPerDay) + 4) % 7

FieldMatches(f, v) == f = None \/ f = Some(v)

\* The rule is due at instant t.  The code writes "*" for day of month and
\* month, so only that reading of the two fields is given.
Due(fields, t) ==
    /\ FieldMatches(fields[1], SecondOf(t))
    /\ FieldMatches(fields[2], MinuteOf(t))
    /\ FieldMatches(fields[3], HourOf(t))
    /\ fields[4] = None
    /\ fields[5] = None
    /\ FieldMatches(fields[6], WeekdayOf(t))

CronJob(id, msg) ==
    [id |-> id, kind |-> "cron", msg |-> msg, at |-> 0, due |-> 0,
     cronStr |-> cronStr(msg),
     timezone |-> IF IsSome(msg.timezone) THEN msg.timezone[1]
                  ELSE "Europe/Stockholm"]

\* The largest delay a timer of the runtime holds, in milliseconds
\* (2^31 - 1), and the milliseconds of a second.
TIMEOUT_MAX == 2147483647
MsPerSec == 1000

\* setTimeout(callback, diffMs) called at nowv with diffMs = diffSec * 1000,
\* diffSec >= 1: the instant from which the callback may run.  A delay above
\* TIMEOUT_MAX is set to 1 ms by the runtime, which is within the second of
\* the call.  (diffSec * MsPerSec > TIMEOUT_MAX, compared in seconds.)
setTimeout(nowv, diffSec) ==
    IF diffSec > TIMEOUT_MAX \div MsPerSec THEN nowv ELSE nowv + diffSec

\* The handle of a timer for timestamp at, armed at nowv.
Timeout(id, msg, at, label, nowv) ==
    [id |-> id, kind |-> "timeout", msg |-> msg, at |-> at,
     due |-> setTimeout(nowv, at - nowv),
     cronStr |-> <<>>, timezone |-> label]

\* Variant: a timestamp equal to the current time is scheduled as well.
scheduleOneTimeMessage_OrEqual(msg, targetDate, label, id, nowv) ==
    IF targetDate >= nowv THEN <<Timeout(id, msg, targetDate, label, nowv)>>
    ELSE <<>>

\* The inner function scheduleOneTimeMessage: the handles it pushes.
scheduleOneTimeMessage(msg, targetDate, label, id, nowv) ==
    IF targetDate > nowv THEN <<Timeout(id, msg, targetDate, label, nowv)>>
    ELSE <<>>

\* The weekly branch of the forEach body.
WeeklyBranch(msg, id) ==
    IF IsSome(msg.hour) /\ IsSome(msg.minutes) /\ IsSome(msg.seconds)
       /\ IsSome(msg.dayoftheweek)
    THEN <<CronJob(id, msg)>>
    ELSE <<>>

\* The date branch of the forEach body.
DateBranch(msg, id, nowv) ==
    IF ~Truthy(msg.year) \/ ~Truthy(msg.month) \/ ~Truthy(msg.day)
       \/ ~IsSome(msg.time)
    THEN <<>>
    ELSE LET main == scheduleOneTimeMessage(msg, dateObj(msg), "", id, nowv)
         IN  IF IsSome(daysBefore(msg)) /\ daysBefore(msg)[1] > 0
             THEN main \o scheduleOneTimeMessage(msg, remindDate(msg),
                                                 "daybefore", id + Len(main), nowv)
             ELSE main

\* Variant: the turnon flag is not looked at.
JobsFor_AnyFlag(msg, id, nowv) ==
    IF msg.type = "weekly" THEN WeeklyBranch(msg, id)
    ELSE IF msg.type = "date" THEN DateBranch(msg, id, nowv)
    ELSE <<>>

\* One iteration of messages.forEach: the handles pushed for msg.
JobsFor(msg, id, nowv) ==
    IF ~msg.turnon THEN <<>>
    ELSE IF msg.type = "weekly" THEN WeeklyBranch(msg, id)
    ELSE IF msg.type = "date" THEN DateBranch(msg, id, nowv)
    ELSE <<>>

\* Variant: the loop ends at the first definition that is skipped.
RECURSIVE ArmFrom_EndAtSkip(_, _, _, _)
ArmFrom_EndAtSkip(messages, i, id, nowv) ==
    IF i > Len(messages) THEN <<>>
    ELSE LET js == JobsFor(messages[i], id, nowv)
         IN  IF js = <<>> THEN <<>>
             ELSE js \o ArmFrom_EndAtSkip(messages, i + 1, id + Len(js), nowv)

\* msg.turnon of an element that is null throws a TypeError.
Throws(messages) == \E i \in 1..Len(messages) : messages[i] = NullEntry

\* The handles pushed from element i on; the loop ends where the callback
\* throws.
RECURSIVE ArmFrom(_, _, _, _)
ArmFrom(messages, i, id, nowv) ==
    IF i > Len(messages) THEN <<>>
    ELSE IF messages[i] = NullEntry THEN <<>>
    ELSE LET js == JobsFor(messages[i], id, nowv)
         IN  js \o ArmFrom(messages, i + 1, id + Len(js), nowv)

\* Variant: the teardown stops the cron jobs and leaves the timers.
StopAll_CronOnly(jobs, registry) ==
    registry \ { j \in Range(jobs) : j.kind = "cron" }

\* Variant: the teardown clears the timers and leaves the cron jobs.
StopAll_TimersOnly(jobs, registry) ==
    registry \ { j \in Range(jobs) : j.kind = "timeout" }

\* The teardown: job.stop() for cron jobs, clearTimeout for timers.
StopAll(jobs, registry) ==
    (registry \ { j \in Range(jobs) : j.kind = "cron" })
              \ { j \in Range(jobs) : j.kind = "timeout" }

\* scheduleAllMessages(messages), as a relation on the scheduler state.
scheduleAllMessages(messages) ==
    LET fresh == ArmFrom(messages, 1, nextHandle, now)
    IN  /\ cronJobs' = fresh
        /\ live' = StopAll(cronJobs, live) \cup Range(fresh)
        /\ nextHandle' = nextHandle + Len(fresh)
        /\ armedAt' = [time |-> now, calls |-> armedAt.calls + 1]


\* A message on the gateway; its id is its position in posted.
\* origin: the definition whose trigger sent it, if a trigger did.
Message(author, channelId, content, files, origin) ==
    [author |-> author, channelId |-> channelId, content |-> content,
     files |-> files, origin |-> origin]

(***************************************************************************)
(* Initial state: the module has been loaded (file read, watcher           *)
(* registered), the gateway has not yet delivered 'ready'.                 *)
(***************************************************************************)
\* Definition sets found on disk at startup or written by an operator.
OperatorSets ==
    { <<DefA, DefB>>, <<DefA, DefD>>, <<DefOff, DefD>>, <<>> }

OperatorTexts == { Json(s) : s \in OperatorSets } \cup { Garbage }

\* Lines 1053-1061: the initial load; malformed content gives the empty set.
InitialLoad(text) ==
    IF JSONparse(text).ok THEN JSONparse(text).value ELSE <<>>

\* An HTTP request on /scheduledMessages: method, req.params.index (the
\* characters of the path segment), req.body.
Request(method, index, body) ==
    [method |-> method, index |-> index, body |-> body]

NoRequest == Request("", None, None)

NoResponse == [status |-> 0, success |-> FALSE, data |-> None]

\* Lines 930-1040, with the numbers written as numbers and roleId left out.
defaultScheduledMessages ==
    << Weekly("example-weekly-1", TRUE, "1329422830185742366",
              "1329422830185742366", Some(17), Some(53), Some(30), Some(3),
              "This is an example weekly message with a random image.",
              <<Resp("example1", "Response 1"), Resp("example2", "Response 2"),
                Resp("example3", "Response 3")>>,
              TRUE,
              <<Img("https://www.example.com/example1.png"),
                Img("https://www.example.com/example2.png"),
                Img("https://www.example.com/example3.png")>>),
       Weekly("example-weekly-2", TRUE, "1329422830185742367",
              "1329422830185742367", Some(12), Some(0), Some(0), Some(5),
              "Another example weekly message without images.",
              <<Resp("exampleA", "Response A"), Resp("exampleB", "Response B")>>,
              FALSE,
              <<Img("https://www.example.com/example4.png"),
                Img("https://www.example.com/example5.png"),
                Img("https://www.example.com/example6.png")>>),
       Weekly("example-weekly-3", TRUE, "1329422830185742368",
              "1329422830185742368", Some(9), Some(30), Some(0), Some(1),
              "Good morning! Here's your weekly update with a random image.",
              <<Resp("exampleX", "Response X"), Resp("exampleY", "Response Y")>>,
              TRUE,
              <<Img("https://www.example.com/example7.png"),
                Img("https://www.example.com/example8.png")>>) >>

\* What the process finds at startup: whether the assets directory exists,
\* and the text of the file in it, if there is one.
Disk(dir, text) == [dir |-> dir, text |-> text]

\* Lines 1042-1051: a missing file is written with the default set;
\* fs.writeFileSync throws if the directory is missing too.
CreateDefault(disk) ==
    IF disk.text # Absent THEN disk
    ELSE IF disk.dir THEN Disk(TRUE, JSONstringify(defaultScheduledMessages))
    ELSE disk

\* The write of line 1045 threw: module evaluation ends with the error.
LoadFails(disk) == disk.text = Absent /\ ~disk.dir

\* The channel ids that members write in commands.
ChannelIds == {"1", "2"}

\* The state after module load from one of these startup conditions, with
\* one of these channel lists in config.json (None: no such file), these
\* messages on the gateway, at the first of these instants.
StartedWith(disks, lists, msgs, times) ==
    /\ config \in lists
    /\ imageData = [c \in ChannelIds |-> None]
    /\ received = <<>>
    /\ replies = {}
    /\ commands = EmptyBag
    /\ \E disk \in disks :
          /\ startup = disk
          /\ file = [text |-> CreateDefault(disk).text, mtime |-> 1, ctime |-> 1]
          /\ scheduledMessages =
                IF LoadFails(disk) THEN <<>>
                ELSE InitialLoad(CreateDefault(disk).text)
          /\ unhandled = IF LoadFails(disk) THEN 1 ELSE 0
          /\ written = IF disk.text = Absent /\ disk.dir
                       THEN Some(defaultScheduledMessages) ELSE None
    /\ watchPrev = Stat(file)
    /\ cronJobs = <<>>
    /\ live = {}
    /\ nextHandle = 1
    /\ now \in { t \in times : \A u \in times : t <= u }
    /\ armedAt = [time |-> now, calls |-> 0]
    /\ ready = FALSE
    /\ req = NoRequest
    /\ res = NoResponse
    /\ sends = EmptyBag
    /\ sendLog = {}
    /\ started = 0
    /\ posted = msgs
    /\ messageIdToScheduledConfig = <<>>
    /\ respondedMessages = {}
    /\ handlers = EmptyBag
    /\ reactions = 0
    /\ passes = EmptyBag
    /\ outbox = <<>>
    /\ alreadyLog = {}
    /\ errorLog = {}

\* The same with a message of a user and a message of the bot that no
\* scheduled send posted on the gateway, at the first instant of TimePoints.
StartedOn(disks, lists) ==
    StartedWith(disks, lists,
                << Message("user", "c1", "hello", <<>>, None),
                   Message("bot", "c1", "Welcome!", <<>>, None) >>,
                TimePoints)

\* The state after module load from one of these startup conditions, without
\* config.json.
Started(disks) == StartedOn(disks, {None})

\* The state after module load when the file holds one of these texts.
Loaded(texts) == Started({ Disk(TRUE, text) : text \in texts })

Init == Loaded(OperatorTexts)

(***************************************************************************)
(* Scheduler actions.                                                      *)
(***************************************************************************)
\* client.once('ready')
\* The process runs: no exception has escaped to the top level.
Alive == unhandled = 0

\* client.once('ready'); an exception thrown by scheduleAllMessages escapes
\* the listener.
Ready ==
    /\ Alive
    /\ ~ready
    /\ ready' = TRUE
    /\ scheduleAllMessages(scheduledMessages)
    /\ unhandled' = IF Throws(scheduledMessages) THEN unhandled + 1
                    ELSE unhandled
    /\ UNCHANGED <<startup, file, written, watchPrev, scheduledMessages, now, req, res, sends, sendLog, started>>
    /\ UNCHANGED cmdVars
    /\ UNCHANGED <<posted, messageIdToScheduledConfig, respondedMessages,
                   handlers, reactions, passes, outbox, alreadyLog, errorLog>>

\* A write of the file: the file system stamps it with a fresh change time;
\* the modification time is the same stamp unless the writer sets it.
Written(text, mtime) ==
    [text |-> text, mtime |-> mtime, ctime |-> file.ctime + 1]

CanWrite == file.ctime < 1 + MaxWrites

\* An operator edits or replaces the file outside the process.  Replacing
\* it by an older copy (mv, cp -p, rsync -t) keeps the copy's earlier
\* modification time.
EditTo(texts) ==
    /\ CanWrite
    /\ \E text \in texts, keep \in BOOLEAN :
          /\ text # file.text
          /\ file' = Written(text, IF keep THEN 0 ELSE file.ctime + 1)
    /\ written' = None
    /\ UNCHANGED <<startup, watchPrev, scheduledMessages, cronJobs, live, nextHandle,
                   now, armedAt, ready, req, res, sends,
                   sendLog, started>>
    /\ UNCHANGED reactVars
    /\ UNCHANGED cmdVars

ExternalEdit == EditTo(OperatorTexts)

\* Variant: a reload that cannot read or parse the file falls back to the
\* empty set, as the initial load does.
WatchCallback_Fallback(curr, prev) ==
    IF curr.mtime > prev.mtime
    THEN /\ scheduledMessages' = InitialLoad(file.text)
         /\ scheduleAllMessages(scheduledMessages')
    ELSE UNCHANGED <<scheduledMessages, cronJobs, live, nextHandle, armedAt>>

\* The fs.watchFile listener, run by the stat poller when the stat changed.
WatchCallback(curr, prev) ==
    IF curr.mtime > prev.mtime /\ JSONparse(file.text).ok
    THEN /\ scheduledMessages' = JSONparse(file.text).value
         /\ scheduleAllMessages(scheduledMessages')
    ELSE UNCHANGED <<scheduledMessages, cronJobs, live, nextHandle, armedAt>>

Poll ==
    /\ Alive
    /\ Stat(file) # watchPrev
    /\ watchPrev' = Stat(file)
    /\ WatchCallback(Stat(file), watchPrev)
    /\ UNCHANGED startup
    /\ UNCHANGED <<file, written, now, ready, req, res, sends, sendLog, started>>
    /\ UNCHANGED reactVars
    /\ UNCHANGED cmdVars

\* Time passes to the next of the given instants.
Advance(points) ==
    /\ \E t \in points :
          /\ t > now
          /\ \A u \in points : u > now => t <= u
          /\ now' = t
    /\ UNCHANGED schedVars
    /\ UNCHANGED <<sends, sendLog, started>>
    /\ UNCHANGED reactVars
    /\ UNCHANGED cmdVars

Tick == Advance(TimePoints)

\* For each weekly rule of the catalogue, the first instant at which it is
\* due.
DuePoints ==
    { t \in TimePoints :
        \E d \in Catalogue :
           /\ d.type = "weekly" /\ Due(cronStr(d), t)
           /\ \A u \in TimePoints : Due(cronStr(d), u) => t <= u }

\* Time passes to the next instant at which a weekly rule is first due.
TickDue == Advance(DuePoints)

\* sendScheduledMessage(msg) up to its first await (the channel fetch).
StartSend(msg) ==
    /\ sends' = sends (+) SetToBag({[msg |-> msg, pc |-> "fetch", id |-> 0]})
    /\ started' = started + 1
    /\ UNCHANGED sendLog

\* A node-cron task fires, at an instant its rule is due:
\* () => sendScheduledMessage(msg)
CronFire ==
    /\ Alive
    /\ started < MaxSends
    /\ \E h \in live :
          /\ h.kind = "cron"
          /\ Due(h.cronStr, now)
          /\ StartSend(h.msg)
    /\ UNCHANGED schedVars
    /\ UNCHANGED now
    /\ UNCHANGED reactVars
    /\ UNCHANGED cmdVars

\* A setTimeout callback fires, not before its delay has passed, while
\* fewer than n sends have been started.
TimerFireUpTo(n) ==
    /\ Alive
    /\ started < n
    /\ \E h \in live :
          /\ h.kind = "timeout"
          /\ now >= h.due
          /\ live' = live \ {h}
          /\ StartSend(h.msg)
    /\ UNCHANGED <<startup, file, written, watchPrev, scheduledMessages, cronJobs, nextHandle,
                   armedAt, ready, req, res, now>>
    /\ UNCHANGED reactVars
    /\ UNCHANGED cmdVars

TimerFire == TimerFireUpTo(MaxSends)

\* The same with room for a timer that fires again after a reload.
TimerFires == TimerFireUpTo(MaxFires)

(***************************************************************************)
(* CRUD endpoints over the persisted set.                                  *)
(***************************************************************************)
Respond(status, success, data) ==
    [status |-> status, success |-> success, data |-> data]

\* parsed with element i (0-based) replaced by x
ReplaceAt(parsed, i, x) == [parsed EXCEPT ![i + 1] = x]

\* A splice that removes the element after position i.
SpliceOut_Next(parsed, i) ==
    SubSeq(parsed, 1, i + 1) \o SubSeq(parsed, i + 3, Len(parsed))

\* parsed.splice(i, 1)
SpliceOut(parsed, i) ==
    SubSeq(parsed, 1, i) \o SubSeq(parsed, i + 2, Len(parsed))

\* fs.writeFileSync(scheduledMessagesFilePath, JSON.stringify(parsed, null, 2))
Persist(parsed) ==
    /\ file' = Written(JSONstringify(parsed), file.ctime + 1)
    /\ written' = Some(parsed)

\* The handler answers without writing.
Answer(status) ==
    /\ res' = Respond(status, FALSE, None)
    /\ UNCHANGED <<file, written>>

\* app.get('/scheduledMessages')
Get ==
    /\ Alive
    /\ LET p == JSONparse(file.text) IN
       /\ req' = Request("GET", None, None)
       /\ res' = IF p.ok THEN Respond(200, TRUE, Some(p.value))
                 ELSE Respond(500, FALSE, None)
    /\ UNCHANGED <<startup, file, written, watchPrev, scheduledMessages,
                   cronJobs, live, nextHandle, now, armedAt, ready, sends,
                   sendLog, started>>
    /\ UNCHANGED reactVars
    /\ UNCHANGED cmdVars

\* app.post('/scheduledMessages'), for requests whose body is among the
\* given ones.
PostOf(bodies) ==
    /\ Alive
    /\ CanWrite
    /\ LET p == JSONparse(file.text) IN
       \E newMsg \in bodies :
          /\ req' = Request("POST", None, Some(newMsg))
          /\ IF p.ok
             THEN /\ Len(p.value) < MaxDefs
                  /\ Persist(Append(p.value, newMsg))
                  /\ res' = Respond(201, TRUE, Some(newMsg))
             ELSE Answer(500)
    /\ UNCHANGED <<startup, watchPrev, scheduledMessages, cronJobs, live,
                   nextHandle, now, armedAt, ready, sends, sendLog, started>>
    /\ UNCHANGED reactVars
    /\ UNCHANGED cmdVars

\* A POST request with any definition of the catalogue.
Post == PostOf(Catalogue)

\* A POST request that appends a weekly definition, enabled or disabled.
PostWeekly == PostOf({DefA, DefOff})

\* The decimal digits.
Digits == <<"0", "1", "2", "3", "4", "5", "6", "7", "8", "9">>

IsDigit(c) == \E d \in 1..10 : Digits[d] = c

DigitValue(c) == (CHOOSE d \in 1..10 : Digits[d] = c) - 1

\* The decimal numeral of an integer, as a client writes it into the path.
RECURSIVE Decimal(_)
Decimal(i) ==
    IF i < 0 THEN <<"-">> \o Decimal(-i)
    ELSE IF i < 10 THEN <<Digits[i + 1]>>
    ELSE Decimal(i \div 10) \o <<Digits[(i % 10) + 1]>>

\* The number a sequence of digits denotes.
RECURSIVE ValueOf(_)
ValueOf(ds) ==
    IF ds = <<>> THEN 0
    ELSE 10 * ValueOf(SubSeq(ds, 1, Len(ds) - 1)) + DigitValue(ds[Len(ds)])

\* Variant: a parameter without leading digits is read as 0.
parseInt_OrZero(string) ==
    LET isSpace(c) == c = " "
        lead == CHOOSE k \in 0..Len(string) :
                   /\ \A i \in 1..k : isSpace(string[i])
                   /\ k = Len(string) \/ ~isSpace(string[k + 1])
        t == SubSeq(string, lead + 1, Len(string))
        signed == t # <<>> /\ t[1] \in {"-", "+"}
        u == IF signed THEN Tail(t) ELSE t
        n == CHOOSE k \in 0..Len(u) :
                /\ \A i \in 1..k : IsDigit(u[i])
                /\ k = Len(u) \/ ~IsDigit(u[k + 1])
        v == ValueOf(SubSeq(u, 1, n))
    IN  IF signed /\ t[1] = "-" THEN Some(-v) ELSE Some(v)

\* parseInt(string, 10) (lines 1961, 1979): leading blanks are skipped, a
\* sign is taken, then the longest run of digits; what follows is ignored.
\* Without a digit the result is NaN, here None; a number n is Some(n).
parseInt(string) ==
    LET isSpace(c) == c = " "
        lead == CHOOSE k \in 0..Len(string) :
                   /\ \A i \in 1..k : isSpace(string[i])
                   /\ k = Len(string) \/ ~isSpace(string[k + 1])
        t == SubSeq(string, lead + 1, Len(string))
        signed == t # <<>> /\ t[1] \in {"-", "+"}
        u == IF signed THEN Tail(t) ELSE t
        n == CHOOSE k \in 0..Len(u) :
                /\ \A i \in 1..k : IsDigit(u[i])
                /\ k = Len(u) \/ ~IsDigit(u[k + 1])
        v == ValueOf(SubSeq(u, 1, n))
    IN  IF n = 0 THEN None
        ELSE IF signed /\ t[1] = "-" THEN Some(-v) ELSE Some(v)

\* index >= 0 && index < parsed.length (lines 1965, 1983); a comparison
\* with NaN is false.
InRangeOf(index, parsed) ==
    IsSome(index) /\ index[1] >= 0 /\ index[1] < Len(parsed)

\* app.put('/scheduledMessages/:index'), for requests whose path parameter
\* and body are among the given ones.
PutAt(params, bodies) ==
    /\ Alive
    /\ CanWrite
    /\ LET p == JSONparse(file.text) IN
       \E param \in params, updatedMsg \in bodies :
          LET index == parseInt(param) IN
          /\ req' = Request("PUT", Some(param), Some(updatedMsg))
          /\ IF p.ok
             THEN IF InRangeOf(index, p.value)
                  THEN /\ Persist(ReplaceAt(p.value, index[1], updatedMsg))
                       /\ res' = Respond(200, TRUE, Some(updatedMsg))
                  ELSE Answer(404)
             ELSE Answer(500)
    /\ UNCHANGED <<startup, watchPrev, scheduledMessages, cronJobs, live,
                   nextHandle, now, armedAt, ready, sends, sendLog, started>>
    /\ UNCHANGED reactVars
    /\ UNCHANGED cmdVars

\* The same for requests whose index is the numeral of one of these.
PutOf(indices, bodies) == PutAt({ Decimal(i) : i \in indices }, bodies)

\* A PUT request with any index and any definition of the catalogue.
Put == PutOf(-1..MaxDefs, Catalogue)

\* A PUT request on the first definition, which replaces it by another
\* definition or by a disabled copy of definition A.
PutFirst == PutOf({0}, {DefB, DefOff})

\* A DELETE that also re-arms from what it wrote.
Delete_Rearming ==
    /\ Alive
    /\ CanWrite
    /\ LET p == JSONparse(file.text) IN
       \E index \in 0..MaxDefs - 1 :
          /\ p.ok
          /\ index < Len(p.value)
          /\ Persist(SpliceOut(p.value, index))
          /\ req' = Request("DELETE", Some(Decimal(index)), None)
          /\ res' = Respond(200, TRUE, Some(p.value[index + 1]))
          /\ scheduledMessages' = SpliceOut(p.value, index)
          /\ scheduleAllMessages(scheduledMessages')
    /\ UNCHANGED <<startup, watchPrev, now, ready, sends, sendLog, started>>
    /\ UNCHANGED reactVars
    /\ UNCHANGED cmdVars

\* app.delete('/scheduledMessages/:index'), for requests whose path
\* parameter is among the given ones.
DeleteAt(params) ==
    /\ Alive
    /\ CanWrite
    /\ LET p == JSONparse(file.text) IN
       \E param \in params :
          LET index == parseInt(param) IN
          /\ req' = Request("DELETE", Some(param), None)
          /\ IF p.ok
             THEN IF InRangeOf(index, p.value)
                  THEN /\ Persist(SpliceOut(p.value, index[1]))
                       /\ res' = Respond(200, TRUE, Some(p.value[index[1] + 1]))
                  ELSE Answer(404)
             ELSE Answer(500)
    /\ UNCHANGED <<startup, watchPrev, scheduledMessages, cronJobs, live,
                   nextHandle, now, armedAt, ready, sends, sendLog, started>>
    /\ UNCHANGED reactVars
    /\ UNCHANGED cmdVars

\* A DELETE request with any index.
Delete == DeleteAt({ Decimal(i) : i \in -1..MaxDefs })

(***************************************************************************)
(* The scheduler alone: definitions on disk, the watcher, the armed        *)
(* triggers and the clock.  A fired trigger starts a send, which stays     *)
(* suspended at its channel fetch: the continuation of a send reads and   *)
(* writes none of the scheduler's variables.                               *)
(***************************************************************************)
NextSched ==
    \/ Ready
    \/ ExternalEdit
    \/ Poll
    \/ Tick
    \/ CronFire
    \/ TimerFire

SpecSched == Init /\ [][NextSched]_vars

(***************************************************************************)
(* The date branch alone: one date definition on disk at startup, drawn    *)
(* over calendar days (month ends, leap days, days past the month's end),  *)
(* partial time strings and lead days; the process becomes ready at any    *)
(* of the clock's instants.                                                *)
(***************************************************************************)
DateYears == {2024, 2025, 2028}
DateMonths == {1, 2, 3, 12}
DateDays == {1, 10, 29, 31}
\* "12:00:00", "23:59:59", "12:30", "7" and a string that is no number.
DateTimes ==
    { HMS(12, 0, 0), HMS(23, 59, 59), <<Some(12), Some(30)>>, <<Some(7)>>,
      <<None>> }
DateLeads == { None, Some(0), Some(1), Some(3) }

DateInputs ==
    { DateDef("D", TRUE, "c2", "r1", Some(y), Some(mo), Some(d), t, db,
              "remind D", <<Resp("d1", "D one")>>) :
        y \in DateYears, mo \in DateMonths, d \in DateDays,
        t \in DateTimes, db \in DateLeads }

InitDate == Loaded({ Json(<<d>>) : d \in DateInputs })

NextDate ==
    \/ Ready
    \/ Tick

SpecDate == InitDate /\ [][NextDate]_vars

(***************************************************************************)
(* The weekly branch alone: one weekly definition on disk at startup,      *)
(* drawn over its four fields; the clock visits, on three days of two      *)
(* weeks, every combination of the hours, minutes and seconds drawn.       *)
(***************************************************************************)
WeekHours == {0, 12}
WeekMinutes == {0, 30}
WeekSeconds == {0, 30}
\* Tuesday and Wednesday.
WeekDays == {2, 3}

WeeklyInputs ==
    { Weekly("W", TRUE, "c1", "r1", Some(h), Some(mi), Some(sec), Some(dow),
             "remind W", <<Resp("w1", "W one")>>, FALSE, <<>>) :
        h \in WeekHours, mi \in WeekMinutes, sec \in WeekSeconds,
        dow \in WeekDays }

\* Tuesday 7, Wednesday 8 and Tuesday 14 January 2025, after the start of
\* the clock.
WeekPoints ==
    { NewDate(2025, 0, 1, 0, 0, 0) } \cup
    { NewDate(2025, 0, day, h, mi, sec) :
        day \in {7, 8, 14}, h \in WeekHours, mi \in WeekMinutes,
        sec \in WeekSeconds }

TickWeek == Advance(WeekPoints)

InitWeekly == Loaded({ Json(<<d>>) : d \in WeeklyInputs })

NextWeekly ==
    \/ Ready
    \/ TickWeek
    \/ CronFire

SpecWeekly == InitWeekly /\ [][NextWeekly]_vars

(***************************************************************************)
(* Skipped definitions: sets on disk at startup in which a definition      *)
(* that lacks a field of its type, or is of an unknown type, stands        *)
(* before, after or between eligible ones.                                 *)
(***************************************************************************)
SkipWeekly ==
    { [DefA EXCEPT ![f] = None, !.name = "S"] :
        f \in {"hour", "minutes", "seconds", "dayoftheweek"} }

SkipDate ==
    { [DefD EXCEPT ![f] = None, !.name = "S"] :
        f \in {"year", "month", "day", "time"} }

SkipType == { [DefA EXCEPT !.type = "monthly", !.name = "S"] }

Skipped == SkipWeekly \cup SkipDate \cup SkipType

SkipSets ==
    { <<b, g>> : b \in Skipped, g \in {DefA, DefD} }
    \cup { <<g, b>> : b \in Skipped, g \in {DefA, DefD} }
    \cup { <<DefA, b, DefD>> : b \in Skipped }
    \cup { <<DefD, b, DefA>> : b \in Skipped }

InitSkip == Loaded({ Json(set) : set \in SkipSets })

NextSkip ==
    \/ Ready
    \/ Tick

SpecSkip == InitSkip /\ [][NextSkip]_vars

(***************************************************************************)
(* Startup: the file holds a definition set, text that is no JSON, or an   *)
(* array with a null element, or is missing, with or without the assets    *)
(* directory; the process then becomes ready at any instant.               *)
(***************************************************************************)
NullSets == { <<NullEntry>>, <<DefA, NullEntry, DefD>> }

StartupDisks ==
    { Disk(TRUE, text) : text \in OperatorTexts \cup { Json(set) : set \in NullSets } }
    \cup { Disk(TRUE, Absent), Disk(FALSE, Absent) }

InitBoot == Started(StartupDisks)

NextBoot ==
    \/ Ready
    \/ Tick

SpecBoot == InitBoot /\ [][NextBoot]_vars



(***************************************************************************)
(* sendScheduledMessage, one action per resumption.  A channel fetch       *)
(* yields a text channel ("text"), nothing or a non-text channel           *)
(* ("invalid"), or throws.                                                 *)
(***************************************************************************)
FetchOutcomes == {"text", "invalid", "throws"}

\* Variant: the text is the name of the definition.
finalMessageContent_Name(msg) == msg.name

\* Lines 1080-1088: the text handed to channel.send.
finalMessageContent(msg) ==
    IF Len(msg.messageContent) > 0 THEN msg.messageContent
    ELSE "No message exist, please just report this to Arthur ahahaha, look line 200"

\* Map.prototype.set
MapSet(map, key, value) ==
    [k \in DOMAIN map \cup {key} |-> IF k = key THEN value ELSE map[k]]

\* A suspended invocation moves on to pc (and id), or returns.
Moved(s, pc, id) ==
    (sends (-) SetToBag({s})) (+) SetToBag({[s EXCEPT !.pc = pc, !.id = id]})
Returned(s) == sends (-) SetToBag({s})

\* console.error of line 1076 (at = "channel") or of line 1098, with the
\* await whose rejection was caught.
SendFailure(msg, at, id) == [name |-> msg.name, at |-> at, id |-> id]

\* A resumption that stops the definition's cron job when the channel
\* cannot be used.
SendFetched_Disarming ==
    /\ \E s \in BagToSet(sends), outcome \in FetchOutcomes :
          /\ s.pc = "fetch"
          /\ sends' = IF outcome = "text" THEN Moved(s, "send", 0)
                      ELSE Returned(s)
          /\ live' = IF outcome = "text" THEN live
                     ELSE { h \in live : h.msg # s.msg }
          /\ sendLog' =
                IF outcome = "text" THEN sendLog
                ELSE sendLog \cup {SendFailure(s.msg, "channel", 0)}
    /\ UNCHANGED <<startup, file, written, watchPrev, scheduledMessages,
                   cronJobs, nextHandle, armedAt, ready, req, res>>
    /\ UNCHANGED <<now, started>>
    /\ UNCHANGED reactVars
    /\ UNCHANGED cmdVars

\* Resumption after `await client.channels.fetch(msg.channelId)`.
SendFetched ==
    /\ \E s \in BagToSet(sends), outcome \in FetchOutcomes :
          /\ s.pc = "fetch"
          /\ sends' = IF outcome = "text" THEN Moved(s, "send", 0)
                      ELSE Returned(s)
          /\ sendLog' =
                IF outcome = "text" THEN sendLog
                ELSE sendLog \cup
                       {SendFailure(s.msg, IF outcome = "throws" THEN "fetch"
                                           ELSE "channel", 0)}
    /\ UNCHANGED schedVars
    /\ UNCHANGED <<now, started>>
    /\ UNCHANGED reactVars
    /\ UNCHANGED cmdVars

\* The gateway handles the request of channel.send: it creates the message,
\* which the users of the channel see and can react to from then on, or it
\* rejects.  The invocation resumes (SendRecorded) when the answer of the
\* request has arrived in the process; reaction events arrive on the
\* gateway connection, independently of that answer.
SendSettled ==
    /\ \E s \in BagToSet(sends), ok \in BOOLEAN :
          /\ s.pc = "send"
          /\ IF ok
             THEN /\ posted' = Append(posted,
                         Message("bot", s.msg.channelId,
                                 finalMessageContent(s.msg), <<>>,
                                 Some(s.msg)))
                  /\ sends' = Moved(s, "sent", Len(posted) + 1)
                  /\ sendLog' = sendLog
             ELSE /\ posted' = posted
                  /\ sends' = Returned(s)
                  /\ sendLog' = sendLog \cup {SendFailure(s.msg, "send", 0)}
    /\ UNCHANGED schedVars
    /\ UNCHANGED cmdVars
    /\ UNCHANGED <<now, started>>
    /\ UNCHANGED <<messageIdToScheduledConfig, respondedMessages, handlers,
                   reactions, passes, outbox, alreadyLog, errorLog, unhandled>>

\* A resumption that stores the mapping only while the definition is still
\* in the set in memory.
SendRecorded_IfListed ==
    /\ \E s \in BagToSet(sends) :
          /\ s.pc = "sent"
          /\ messageIdToScheduledConfig' =
                 IF s.msg \in Range(scheduledMessages)
                 THEN MapSet(messageIdToScheduledConfig, s.id, s.msg)
                 ELSE messageIdToScheduledConfig
          /\ sends' = Moved(s, "react", s.id)
    /\ UNCHANGED schedVars
    /\ UNCHANGED cmdVars
    /\ UNCHANGED <<now, started, sendLog>>
    /\ UNCHANGED <<posted, respondedMessages, handlers, reactions, passes,
                   outbox, alreadyLog, errorLog, unhandled>>

\* Resumption after `await channel.send(...)`: store the mapping, then react.
SendRecorded ==
    /\ \E s \in BagToSet(sends) :
          /\ s.pc = "sent"
          /\ messageIdToScheduledConfig' =
                 MapSet(messageIdToScheduledConfig, s.id, s.msg)
          /\ sends' = Moved(s, "react", s.id)
    /\ UNCHANGED schedVars
    /\ UNCHANGED cmdVars
    /\ UNCHANGED <<now, started, sendLog>>
    /\ UNCHANGED <<posted, respondedMessages, handlers, reactions, passes,
                   outbox, alreadyLog, errorLog, unhandled>>

\* A resumption that takes the record back when the reaction was rejected.
SendReacted_RollsBack ==
    /\ \E s \in BagToSet(sends), ok \in BOOLEAN :
          /\ s.pc = "react"
          /\ sends' = Returned(s)
          /\ sendLog' = IF ok THEN sendLog
                        ELSE sendLog \cup {SendFailure(s.msg, "react", s.id)}
          /\ messageIdToScheduledConfig' =
                IF ok THEN messageIdToScheduledConfig
                ELSE [ k \in DOMAIN messageIdToScheduledConfig \ {s.id} |->
                         messageIdToScheduledConfig[k] ]
    /\ UNCHANGED schedVars
    /\ UNCHANGED cmdVars
    /\ UNCHANGED <<now, started>>
    /\ UNCHANGED <<posted, respondedMessages, handlers, reactions, passes,
                   outbox, alreadyLog, errorLog, unhandled>>

\* Resumption after `await sentMessage.react(...)`, fulfilled or rejected.
SendReacted ==
    /\ \E s \in BagToSet(sends), ok \in BOOLEAN :
          /\ s.pc = "react"
          /\ sends' = Returned(s)
          /\ sendLog' = IF ok THEN sendLog
                        ELSE sendLog \cup {SendFailure(s.msg, "react", s.id)}
    /\ UNCHANGED schedVars
    /\ UNCHANGED <<now, started>>
    /\ UNCHANGED reactVars
    /\ UNCHANGED cmdVars

(***************************************************************************)
(* The messageReactionAdd handler, one action per resumption.  handlers    *)
(* holds the invocations suspended at an await; an invocation that returns *)
(* leaves it.                                                              *)
(***************************************************************************)
Handler(m, pc, content, channel, files) ==
    [m |-> m, pc |-> pc, content |-> content, channel |-> channel,
     files |-> files]

Waiting(m, pc) == Handler(m, pc, "", "", <<>>)

Suspend(hs, h) == hs (+) SetToBag({h})
Resume(hs, h) == hs (-) SetToBag({h})
Active(hs) == BagCardinality(hs)

\* Variant: the insertion is left out.
GateInsert_Forgotten(responded, m) == responded

\* Line 1246: respondedMessages.add(id)
GateInsert(responded, m) == responded \cup {m}

\* Variant: imageturnon is not read.
Attachments_Always(cfg, j) ==
    IF IsArray(cfg.Images) /\ Len(cfg.Images) > 0
    THEN << cfg.Images[(j % Len(cfg.Images)) + 1].Imgurl >>
    ELSE <<>>

\* Lines 1265-1271: the attachment list.
Attachments(cfg, j) ==
    IF cfg.imageturnon /\ IsArray(cfg.Images) /\ Len(cfg.Images) > 0
    THEN << cfg.Images[(j % Len(cfg.Images)) + 1].Imgurl >>
    ELSE <<>>

\* Lines 1257-1261: the response drawn.
randomResp(cfg, k) ==
    cfg.automaticResponses[(k % Len(cfg.automaticResponses)) + 1]

\* Math.floor(Math.random() * length): every index of the longest list.
Longest == CHOOSE n \in 0..8 :
    /\ \A d \in Catalogue : Len(d.automaticResponses) <= n /\ Len(d.Images) <= n
    /\ \E d \in Catalogue : Len(d.automaticResponses) = n \/ Len(d.Images) = n

Draws == 0..(Longest - 1)

\* Variant: the definition is looked up by the channel of the message, as
\* the first definition in memory that posts into it.
ConfigFor_ByChannel(m) ==
    LET hits == { i \in 1..Len(scheduledMessages) :
                    scheduledMessages[i].channelId = posted[m].channelId }
    IN  IF hits = {} THEN messageIdToScheduledConfig[m]
        ELSE scheduledMessages[CHOOSE i \in hits : \A o \in hits : i <= o]

\* Variant: the record names the definition, and the response is decided
\* from the definition of that name in the set in memory, if there is one.
ConfigFor_ByName(m) ==
    LET hits == { i \in 1..Len(scheduledMessages) :
                    scheduledMessages[i].name = messageIdToScheduledConfig[m].name }
    IN  IF hits = {} THEN messageIdToScheduledConfig[m]
        ELSE scheduledMessages[CHOOSE i \in hits : \A o \in hits : i <= o]

\* Line 1249: messageIdToScheduledConfig.get(id)
ConfigFor(m) == messageIdToScheduledConfig[m]

\* Variant: a message without record is answered from the first definition
\* in memory.
Lookup_Fallback(hs, m) ==
    IF m \notin DOMAIN messageIdToScheduledConfig /\ scheduledMessages = <<>>
    THEN handlers' = hs
    ELSE LET msgCfg == IF m \in DOMAIN messageIdToScheduledConfig
                       THEN ConfigFor(m) ELSE scheduledMessages[1] IN
         IF ~msgCfg.turnon THEN handlers' = hs
         ELSE IF ~(IsArray(msgCfg.automaticResponses)
                   /\ Len(msgCfg.automaticResponses) > 0) THEN handlers' = hs
         ELSE \E k \in Draws, j \in Draws :
                 handlers' = Suspend(hs, Handler(m, "fetchChannel",
                                         randomResp(msgCfg, k).content,
                                         msgCfg.responseChannelId,
                                         Attachments(msgCfg, j)))

\* Variant: a definition without responses is answered with an empty text.
Lookup_Silent(hs, m) ==
    IF m \notin DOMAIN messageIdToScheduledConfig THEN handlers' = hs
    ELSE LET msgCfg == ConfigFor(m) IN
         IF ~msgCfg.turnon THEN handlers' = hs
         ELSE IF ~(IsArray(msgCfg.automaticResponses)
                   /\ Len(msgCfg.automaticResponses) > 0)
         THEN handlers' = Suspend(hs, Handler(m, "fetchChannel", "",
                                      msgCfg.responseChannelId, <<>>))
         ELSE \E k \in Draws, j \in Draws :
                 handlers' = Suspend(hs, Handler(m, "fetchChannel",
                                         randomResp(msgCfg, k).content,
                                         msgCfg.responseChannelId,
                                         Attachments(msgCfg, j)))

\* Lines 1248-1275: from the lookup to the call of channels.fetch: the
\* invocations left suspended, hs being the others.  k and j are the two
\* Math.random draws, scaled to indices.
Lookup(hs, m) ==
    IF m \notin DOMAIN messageIdToScheduledConfig THEN handlers' = hs
    ELSE LET msgCfg == ConfigFor(m) IN
         IF ~msgCfg.turnon THEN handlers' = hs
         ELSE IF ~(IsArray(msgCfg.automaticResponses)
                   /\ Len(msgCfg.automaticResponses) > 0) THEN handlers' = hs
         ELSE \E k \in Draws, j \in Draws :
                 handlers' = Suspend(hs, Handler(m, "fetchChannel",
                                         randomResp(msgCfg, k).content,
                                         msgCfg.responseChannelId,
                                         Attachments(msgCfg, j)))

\* Variant: the membership test of line 1242 is left out.
Body_Unchecked(hs, m, emoji) ==
    IF posted[m].author # "bot" \/ emoji # "heart"
    THEN /\ handlers' = hs
         /\ UNCHANGED <<respondedMessages, passes, alreadyLog>>
    ELSE /\ respondedMessages' = GateInsert(respondedMessages, m)
         /\ passes' = passes (+) SetToBag({m})
         /\ alreadyLog' = IF m \in respondedMessages THEN alreadyLog \cup {m}
                          ELSE alreadyLog
         /\ Lookup(hs, m)

\* Variant: the id is inserted only on the path that returns without a
\* response (the definition is disabled), not before the channel fetch.
Body_InsertAfterLookup(hs, m, emoji) ==
    IF posted[m].author # "bot" \/ emoji # "heart"
    THEN /\ handlers' = hs
         /\ UNCHANGED <<respondedMessages, passes, alreadyLog>>
    ELSE IF m \in respondedMessages
    THEN /\ handlers' = hs
         /\ alreadyLog' = alreadyLog \cup {m}
         /\ UNCHANGED <<respondedMessages, passes>>
    ELSE /\ respondedMessages' =
                IF m \in DOMAIN messageIdToScheduledConfig
                   /\ ~messageIdToScheduledConfig[m].turnon
                THEN GateInsert(respondedMessages, m)
                ELSE respondedMessages
         /\ passes' = passes (+) SetToBag({m})
         /\ UNCHANGED alreadyLog
         /\ Lookup(hs, m)

\* Variant: the emoji is not compared with the marker.
Body_AnyEmoji(hs, m, emoji) ==
    IF posted[m].author # "bot"
    THEN /\ handlers' = hs
         /\ UNCHANGED <<respondedMessages, passes, alreadyLog>>
    ELSE IF m \in respondedMessages
    THEN /\ handlers' = hs
         /\ alreadyLog' = alreadyLog \cup {m}
         /\ UNCHANGED <<respondedMessages, passes>>
    ELSE /\ respondedMessages' = GateInsert(respondedMessages, m)
         /\ passes' = passes (+) SetToBag({m})
         /\ UNCHANGED alreadyLog
         /\ Lookup(hs, m)

\* Lines 1237-1275: the synchronous stretch from the author check to the
\* await of the response channel fetch, for a reaction with this emoji on
\* message m, hs being the other invocations.
Body(hs, m, emoji) ==
    IF posted[m].author # "bot" \/ emoji # "heart"
    THEN /\ handlers' = hs
         /\ UNCHANGED <<respondedMessages, passes, alreadyLog>>
    ELSE IF m \in respondedMessages
    THEN /\ handlers' = hs
         /\ alreadyLog' = alreadyLog \cup {m}
         /\ UNCHANGED <<respondedMessages, passes>>
    ELSE /\ respondedMessages' = GateInsert(respondedMessages, m)
         /\ passes' = passes (+) SetToBag({m})
         /\ UNCHANGED alreadyLog
         /\ Lookup(hs, m)

Emojis == {"heart", "other"}

\* A reaction-added event arrives: the handler runs to its first await.
\* The emoji and reaction.message.partial are drawn where the handler reads
\* them (lines 1228 and 1240), which is after the awaits of a partial.
\* Lines 1216-1236: the handler from its entry to its first await or, with
\* nothing partial, into the synchronous stretch.  how is "bot" for a
\* reaction made by a bot account (user.bot, line 1218).
Entry(m, how) ==
    IF how = "bot"
    THEN UNCHANGED <<handlers, respondedMessages, passes, alreadyLog>>
    ELSE IF how = "partialR"
    THEN /\ handlers' = Suspend(handlers, Waiting(m, "fetchReaction"))
         /\ UNCHANGED <<respondedMessages, passes, alreadyLog>>
    ELSE IF how = "partialM"
    THEN /\ handlers' = Suspend(handlers, Waiting(m, "fetchMessage"))
         /\ UNCHANGED <<respondedMessages, passes, alreadyLog>>
    ELSE Body(handlers, m, how)

ReactionAdd ==
    /\ reactions < MaxReactions
    /\ reactions' = reactions + 1
    /\ \E m \in 1..Len(posted), how \in {"bot", "partialR", "partialM"} \cup Emojis :
          Entry(m, how)
    /\ UNCHANGED schedVars
    /\ UNCHANGED cmdVars
    /\ UNCHANGED <<now, sends, sendLog, started, posted, messageIdToScheduledConfig,
                   outbox, errorLog, unhandled>>

\* Resumption after `await reaction.fetch()`.
ReactionFetched ==
    /\ \E h \in BagToSet(handlers), how \in {"throws", "partialM"} \cup Emojis :
          /\ h.pc = "fetchReaction"
          /\ IF how = "throws"
             THEN /\ handlers' = Resume(handlers, h)
                  /\ UNCHANGED <<respondedMessages, passes, alreadyLog>>
             ELSE IF how = "partialM"
             THEN /\ handlers' = Suspend(Resume(handlers, h),
                                         Waiting(h.m, "fetchMessage"))
                  /\ UNCHANGED <<respondedMessages, passes, alreadyLog>>
             ELSE Body(Resume(handlers, h), h.m, how)
    /\ UNCHANGED schedVars
    /\ UNCHANGED cmdVars
    /\ UNCHANGED <<now, sends, sendLog, started, posted, messageIdToScheduledConfig,
                   outbox, errorLog, unhandled, reactions>>

\* Resumption after `await reaction.message.fetch()`.
MessageFetched ==
    /\ \E h \in BagToSet(handlers), how \in {"throws"} \cup Emojis :
          /\ h.pc = "fetchMessage"
          /\ IF how = "throws"
             THEN /\ handlers' = Resume(handlers, h)
                  /\ UNCHANGED <<respondedMessages, passes, alreadyLog>>
             ELSE Body(Resume(handlers, h), h.m, how)
    /\ UNCHANGED schedVars
    /\ UNCHANGED cmdVars
    /\ UNCHANGED <<now, sends, sendLog, started, posted, messageIdToScheduledConfig,
                   outbox, errorLog, unhandled, reactions>>

\* A response send handed to the gateway.
Attempt(h) ==
    [m |-> h.m, channel |-> h.channel, content |-> h.content,
     files |-> h.files]

\* A logged failure of the response to message m.
Failure(m, at) == [m |-> m, at |-> at]

\* Variant: a failed fetch withdraws the id so that a later reaction retries.
FetchFailed_Withdraws(h) ==
    /\ errorLog' = errorLog \cup {Failure(h.m, "fetch")}
    /\ handlers' = Resume(handlers, h)
    /\ respondedMessages' = respondedMessages \ {h.m}
    /\ UNCHANGED <<outbox, unhandled>>

\* Variant: after the logged failure the invocation fetches the channel
\* once more.
FetchFailed_Retries(h) ==
    /\ errorLog' = errorLog \cup {Failure(h.m, "fetch")}
    /\ handlers' = handlers
    /\ UNCHANGED <<outbox, respondedMessages, unhandled>>

\* Lines 1276-1279 and 1289-1291: the fetch gave no text channel, or threw:
\* the error is logged and the handler returns.
FetchFailed(h) ==
    /\ errorLog' = errorLog \cup {Failure(h.m, "fetch")}
    /\ handlers' = Resume(handlers, h)
    /\ UNCHANGED <<outbox, respondedMessages, unhandled>>

\* Resumption after `await client.channels.fetch(msgCfg.responseChannelId)`:
\* with a text channel, responseChannel.send is called.
ChannelFetched ==
    /\ \E h \in BagToSet(handlers), outcome \in FetchOutcomes :
          /\ h.pc = "fetchChannel"
          /\ IF outcome = "text"
             THEN /\ outbox' = Append(outbox, Attempt(h))
                  /\ handlers' = Suspend(Resume(handlers, h),
                                         [h EXCEPT !.pc = "sending"])
                  /\ UNCHANGED <<errorLog, respondedMessages, unhandled>>
             ELSE FetchFailed(h)
    /\ UNCHANGED schedVars
    /\ UNCHANGED cmdVars
    /\ UNCHANGED <<now, sends, sendLog, started, posted, messageIdToScheduledConfig,
                   passes, reactions, alreadyLog>>

\* Lines 1289-1291: the send was rejected: the error is logged and the
\* handler returns.
SendFailed(h) ==
    /\ errorLog' = errorLog \cup {Failure(h.m, "send")}
    /\ handlers' = Resume(handlers, h)
    /\ UNCHANGED <<outbox, respondedMessages, unhandled>>

\* Variant: a response that was sent takes the record of its message out
\* of the map.
ResponseSettled_Forgets ==
    /\ \E h \in BagToSet(handlers), ok \in BOOLEAN :
          /\ h.pc = "sending"
          /\ IF ok
             THEN /\ handlers' = Resume(handlers, h)
                  /\ messageIdToScheduledConfig' =
                        [k \in DOMAIN messageIdToScheduledConfig \ {h.m} |->
                            messageIdToScheduledConfig[k]]
                  /\ UNCHANGED <<errorLog, outbox, respondedMessages, unhandled>>
             ELSE /\ SendFailed(h)
                  /\ UNCHANGED messageIdToScheduledConfig
    /\ UNCHANGED schedVars
    /\ UNCHANGED cmdVars
    /\ UNCHANGED <<now, sends, sendLog, started, posted, passes, reactions,
                   alreadyLog>>

\* Resumption after `await responseChannel.send(...)`, fulfilled or rejected.
ResponseSettled ==
    /\ \E h \in BagToSet(handlers), ok \in BOOLEAN :
          /\ h.pc = "sending"
          /\ IF ok
             THEN /\ handlers' = Resume(handlers, h)
                  /\ UNCHANGED <<errorLog, outbox, respondedMessages, unhandled>>
             ELSE SendFailed(h)
    /\ UNCHANGED schedVars
    /\ UNCHANGED cmdVars
    /\ UNCHANGED <<now, sends, sendLog, started, posted, messageIdToScheduledConfig,
                   passes, reactions, alreadyLog>>

(***************************************************************************)
(* The messageCreate handler and the admin commands, one action per        *)
(* resumption.  commands holds the invocations suspended at an await.      *)
(***************************************************************************)
\* getChannelList(): configData.channelIds of config.json, [] without file.
getChannelList == IF IsSome(config) THEN config[1] ELSE <<>>

\* saveChannelList(channelIds): the file after the write.
saveChannelList(channelIds) == Some(channelIds)

\* channelList.includes(channelId)
Includes(list, id) == \E i \in 1..Len(list) : list[i] = id

\* channelList.filter(id => id !== channelId)
Filter(list, channelId) == SelectSeq(list, LAMBDA id : id # channelId)

\* A message: its author (a bot, a member without the admin role, a member
\* with it), its first word and the words after it.
Msg(author, cmd, args) == [author |-> author, cmd |-> cmd, args |-> args]

Authors == {"bot", "member", "admin"}

Contents ==
    { <<"!cc-pic-channel-add", <<c>> >> : c \in ChannelIds } \cup
    { <<"!cc-pic-channel-remove", <<c>> >> : c \in ChannelIds } \cup
    { <<"!cc-pic-channel-remove", <<>> >>, <<"!cc-pic-channel-ls", <<>> >>,
      <<"!pics", <<"1">> >>, <<"!picsall", <<>> >>, <<"hello", <<>> >> }

\* Lines 1357-1380: the command handler a message content is passed to.
\* '!pics ' is matched with its blank, '!cc-pic-channel-ls' as a whole.
Route(msg) ==
    IF msg.cmd = "!pics" /\ msg.args # <<>> THEN "pics"
    ELSE IF msg.cmd = "!picsall" THEN "picsall"
    ELSE IF msg.cmd = "!cc-pic-channel-add" THEN "add"
    ELSE IF msg.cmd = "!cc-pic-channel-remove" THEN "remove"
    ELSE IF msg.cmd = "!cc-pic-channel-ls" /\ msg.args = <<>> THEN "ls"
    ELSE "none"

\* Variant: every member passes.
HasRole_Anyone(msg) == TRUE

\* message.member.roles.cache.has(ADMIN_ROLE_ID)
HasRole(msg) == msg.author = "admin"

\* A reply to (or notice for) message n; list is the channel list a listing
\* shows.
Reply(n, text, list) == [n |-> n, text |-> text, list |-> list]

Denied == "You do not have permission to use this command."

Say(n, text) == replies' = replies \cup {Reply(n, text, <<>>)}

\* A suspended invocation for message n at pc, with the channel id of the
\* command and the channels to scan.
Command(n, pc, id, channels) ==
    [n |-> n, pc |-> pc, id |-> id, channels |-> channels]

Await(c) == commands' = commands (+) SetToBag({c})
Done(c) == commands' = commands (-) SetToBag({c})

\* Lines 1489-1513: handleRemoveChannelCommand past the role check.
RemoveChannel(n, msg) ==
    IF msg.args = <<>>
    THEN /\ Say(n, "Please provide a channel ID.")
         /\ UNCHANGED config
    ELSE IF ~Includes(getChannelList, msg.args[1])
    THEN /\ Say(n, "Channel not found in the list.")
         /\ UNCHANGED config
    ELSE /\ config' = saveChannelList(Filter(getChannelList, msg.args[1]))
         /\ Say(n, "Channel successfully removed.")

\* Lines 1515-1543: handleListChannelsCommand past the role check; the list
\* is read once, before the channel fetches.
ListChannels(n) ==
    replies' = replies \cup
        { IF getChannelList = <<>>
          THEN Reply(n, "No channels have been added yet.", <<>>)
          ELSE Reply(n, "**Channels added for image processing:**",
                     getChannelList) }

\* The handler of message n up to its first await or its return, for a
\* member with the admin role.
Admitted(n, msg) ==
    IF Route(msg) = "add"
    THEN IF msg.args = <<>>
         THEN /\ Say(n, "Please provide a channel ID.")
              /\ UNCHANGED <<config, commands>>
         ELSE /\ Await(Command(n, "addFetch", msg.args[1], {}))
              /\ UNCHANGED <<config, replies>>
    ELSE IF Route(msg) = "remove"
    THEN /\ RemoveChannel(n, msg)
         /\ UNCHANGED commands
    ELSE IF Route(msg) = "ls"
    THEN /\ ListChannels(n)
         /\ UNCHANGED <<config, commands>>
    ELSE IF Route(msg) = "pics"
    THEN /\ Await(Command(n, "picsFetch", msg.args[1], {}))
         /\ UNCHANGED <<config, replies>>
    ELSE /\ Await(Command(n, "fetchMe", "", {}))
         /\ UNCHANGED <<config, replies>>

\* client.on('messageCreate'): a message is delivered.
MessageCreate ==
    /\ Alive
    /\ Len(received) < MaxCommands
    /\ \E author \in Authors, content \in Contents :
          LET msg == Msg(author, content[1], content[2])
              n == Len(received) + 1
          IN  /\ received' = Append(received, msg)
              /\ IF msg.author = "bot" \/ Route(msg) = "none"
                 THEN UNCHANGED <<config, replies, commands>>
                 ELSE IF ~HasRole(msg)
                 THEN /\ Say(n, Denied)
                      /\ UNCHANGED <<config, commands>>
                 ELSE Admitted(n, msg)
    /\ UNCHANGED imageData
    /\ UNCHANGED <<now, sends, sendLog, started>>
    /\ UNCHANGED schedVars
    /\ UNCHANGED reactVars

\* Variant: the id is pushed without the includes test.
AddToList_Unchecked(n, id) ==
    /\ config' = saveChannelList(Append(getChannelList, id))
    /\ Say(n, "Channel is successfully added.")

\* Lines 1475-1482: the list is read, tested, extended and saved.
AddToList(n, id) ==
    IF Includes(getChannelList, id)
    THEN /\ Say(n, "Channel is already added.")
         /\ UNCHANGED config
    ELSE /\ config' = saveChannelList(Append(getChannelList, id))
         /\ Say(n, "Channel is successfully added.")

\* Resumption of handleAddChannelCommand after
\* `await message.guild.channels.fetch(channelId)`.
AddFetched ==
    /\ \E h \in BagToSet(commands), outcome \in FetchOutcomes :
          /\ h.pc = "addFetch"
          /\ Done(h)
          /\ IF outcome = "text" THEN AddToList(h.n, h.id)
             ELSE /\ Say(h.n, IF outcome = "invalid"
                              THEN "Something went wrong: Channel not found or is not a text channel."
                              ELSE "Something went wrong.")
                  /\ UNCHANGED config
    /\ UNCHANGED <<imageData, received>>
    /\ UNCHANGED <<now, sends, sendLog, started>>
    /\ UNCHANGED schedVars
    /\ UNCHANGED reactVars

\* Resumption of handleUpdateImagesCommand after the channel fetch, whose
\* rejection is turned into null (lines 1564-1567).
PicsFetched ==
    /\ \E h \in BagToSet(commands), outcome \in FetchOutcomes :
          /\ h.pc = "picsFetch"
          /\ IF outcome = "throws"
             THEN /\ Say(h.n, "Channel not found. Please ensure the channel ID is correct.")
                  /\ Done(h)
             ELSE IF outcome = "invalid"
             THEN /\ Say(h.n, "The specified channel is not a text channel.")
                  /\ Done(h)
             ELSE IF ~Includes(getChannelList, h.id)
             THEN /\ Say(h.n, "The channel is not added for image processing.")
                  /\ Done(h)
             ELSE /\ Say(h.n, "Updating image URLs for channel, this may take a while...")
                  /\ commands' = (commands (-) SetToBag({h}))
                        (+) SetToBag({Command(h.n, "scan", h.id, {h.id})})
    /\ UNCHANGED <<config, imageData, received>>
    /\ UNCHANGED <<now, sends, sendLog, started>>
    /\ UNCHANGED schedVars
    /\ UNCHANGED reactVars

\* Resumption of handleUpdateAllImagesCommand after
\* `await guild.members.fetchMe()`: the list is read and the channels that
\* resolve and are viewable are kept.
MeFetched ==
    /\ \E h \in BagToSet(commands), ok \in BOOLEAN :
          /\ h.pc = "fetchMe"
          /\ IF ~ok
             THEN /\ Say(h.n, "An error occurred while updating image URLs.")
                  /\ Done(h)
             ELSE \E channels \in SUBSET Range(getChannelList) :
                     IF channels = {}
                     THEN /\ Say(h.n, "No channels are added for image processing.")
                          /\ Done(h)
                     ELSE /\ Say(h.n, "Updating image URLs for all added channels, this may take a while...")
                          /\ commands' = (commands (-) SetToBag({h}))
                                (+) SetToBag({Command(h.n, "scan", "", channels)})
    /\ UNCHANGED <<config, imageData, received>>
    /\ UNCHANGED <<now, sends, sendLog, started>>
    /\ UNCHANGED schedVars
    /\ UNCHANGED reactVars

\* The image infos a scan of a channel finds.
ScanResults == { {}, {"u1"} }

\* fetchAllImageInfosFromChannel and saveImageInfos(ch, infos, true) for the
\* channels of the invocation: the stored infos become those found.
ImagesSaved ==
    /\ \E h \in BagToSet(commands), infos \in ScanResults :
          /\ h.pc = "scan"
          /\ imageData' = [c \in ChannelIds |->
                              IF c \in h.channels THEN Some(infos)
                              ELSE imageData[c]]
          /\ Say(h.n, "Image URLs have been updated.")
          /\ Done(h)
    /\ UNCHANGED <<config, received>>
    /\ UNCHANGED <<now, sends, sendLog, started>>
    /\ UNCHANGED schedVars
    /\ UNCHANGED reactVars

\* The channel lists found in config.json at startup.
ListsAtStart == { None, Some(<<"1">>), Some(<<"2", "1">>) }

InitPics == StartedOn({ Disk(TRUE, Json(<<DefA>>)) }, ListsAtStart)

NextPics ==
    \/ MessageCreate
    \/ AddFetched
    \/ PicsFetched
    \/ MeFetched
    \/ ImagesSaved

SpecPics == InitPics /\ [][NextPics]_vars

(***************************************************************************)
(* The send and reaction engine under the triggers armed at startup.       *)
(***************************************************************************)
Next ==
    \/ Ready
    \/ TickDue
    \/ CronFire
    \/ SendFetched
    \/ SendSettled
    \/ SendRecorded
    \/ SendReacted
    \/ ReactionAdd
    \/ ReactionFetched
    \/ MessageFetched
    \/ ChannelFetched
    \/ ResponseSettled

Spec == Init /\ [][Next]_vars

\* The file holds definitions A and B, or text that is no JSON, or is
\* missing and created.
InitCrud ==
    Started({ Disk(TRUE, text) : text \in {Json(<<DefA, DefB>>), Garbage, Absent} })

\* The persisted set under the CRUD endpoints; the HTTP server answers from
\* module load on, whether or not the gateway is ready.
NextCrud ==
    \/ Get
    \/ Post
    \/ Put
    \/ Delete

SpecCrud == InitCrud /\ [][NextCrud]_vars

\* The CRUD endpoints and the watcher that reloads what they wrote.
NextReload ==
    \/ Get
    \/ Post
    \/ Put
    \/ Delete
    \/ Poll

SpecReload == InitCrud /\ [][NextReload]_vars

\* The CRUD endpoints and the watcher while armed triggers fire and their
\* sends are recorded, from a file that holds definition A.
InitStore == Loaded({ Json(<<DefA>>) })

NextStore ==
    \/ Ready
    \/ Post
    \/ Put
    \/ Delete
    \/ Poll
    \/ CronFire
    \/ SendFetched
    \/ SendSettled
    \/ SendRecorded

SpecStore == InitStore /\ [][NextStore]_vars

(***************************************************************************)
(* One-shot timers with delays around TIMEOUT_MAX: armed at 2025-01-01     *)
(* 00:00:00, the timestamp of DefEdge is 2147483 s ahead (2147483000 ms,   *)
(* below TIMEOUT_MAX) and that of DefOver one second more (above it).      *)
(***************************************************************************)
DefEdge == DateDef("E", TRUE, "c2", "r1", Some(2025), Some(1), Some(25),
                   HMS(20, 31, 23), None, "remind E", <<Resp("e1", "E one")>>)
DefOver == DateDef("O", TRUE, "c2", "r1", Some(2025), Some(1), Some(25),
                   HMS(20, 31, 24), None, "remind O", <<Resp("o1", "O one")>>)

TimerPoints ==
    { NewDate(2025, 0, 1, 0, 0, 0),    NewDate(2025, 0, 7, 12, 0, 0),
      NewDate(2025, 0, 10, 12, 0, 0),  NewDate(2025, 0, 25, 20, 31, 23),
      NewDate(2025, 0, 25, 20, 31, 24) }

TickTimer == Advance(TimerPoints)

InitTimer == Loaded({ Json(<<DefD>>), Json(<<DefEdge>>), Json(<<DefOver>>) })

NextTimer ==
    \/ Ready
    \/ ExternalEdit
    \/ Poll
    \/ TickTimer
    \/ TimerFire

SpecTimer == InitTimer /\ [][NextTimer]_vars

(***************************************************************************)
(* The reaction handler over one recorded send, for a file that holds one  *)
(* weekly definition: with and without responses, with and without images. *)
(* The marker reaction of the send is left pending.                        *)
(***************************************************************************)
ReactTexts ==
    { Json(<<DefA>>), Json(<<DefB>>), Json(<<DefMute>>), Json(<<DefBare>>),
      Json(<<DefPlain>>) }

InitReact == Loaded(ReactTexts)

NextReact ==
    \/ Ready
    \/ TickDue
    \/ CronFire
    \/ SendFetched
    \/ SendSettled
    \/ SendRecorded
    \/ ReactionAdd
    \/ ReactionFetched
    \/ MessageFetched
    \/ ChannelFetched
    \/ ResponseSettled

SpecReact == InitReact /\ [][NextReact]_vars

(***************************************************************************)
(* Sends and reaction handling across reloads: the file holds definition   *)
(* A, a DELETE request rewrites it, the watcher re-arms, and the cron job  *)
(* of A fires, is recorded and is reacted to.  The marker reaction of the  *)
(* send is left pending.                                                   *)
(***************************************************************************)
NextRecord ==
    \/ Ready
    \/ Delete
    \/ Poll
    \/ CronFire
    \/ SendFetched
    \/ SendSettled
    \/ SendRecorded
    \/ ReactionAdd
    \/ ReactionFetched
    \/ MessageFetched
    \/ ChannelFetched
    \/ ResponseSettled

SpecRecord == InitStore /\ [][NextRecord]_vars

(***************************************************************************)
(* PUT and DELETE with path parameters of every kind: numerals in and out  *)
(* of range, a negative numeral, text without digits, and a numeral        *)
(* followed by text, on a file that holds two definitions, none, text that *)
(* is no JSON, or cannot be read.                                          *)
(***************************************************************************)
PathParams ==
    { Decimal(i) : i \in -1..MaxDefs }
        \cup { <<"a">>, <<"N", "a", "N">>, <<"-">>, <<"1", "a">>, <<"1", "0">> }

PutAny == PutAt(PathParams, {DefB})

DeleteAny == DeleteAt(PathParams)

InitParam ==
    Started({ Disk(TRUE, text) :
                text \in {Json(<<DefA, DefD>>), Json(<<>>), Garbage, Unreadable} })

NextParam ==
    \/ Get
    \/ Post
    \/ PutAny
    \/ DeleteAny

SpecParam == InitParam /\ [][NextParam]_vars

(***************************************************************************)
(* The hardcoded variant (src/index.js, lines 1-883): its reaction handler *)
(* over messages its four cron jobs have posted.  The channel ids come     *)
(* from the environment and are taken to be distinct.  From the channel    *)
(* fetch on (lines 274-286) the handler is the code of lines 1273-1291     *)
(* without attachments: ChannelFetched and ResponseSettled.                *)
(***************************************************************************)
\* The calendar days around the turn of the year 2024/25, as the arguments
\* <<year, monthIndex, day>> of the Date constructor.
Calendar ==
    { <<2024, 11, d>> : d \in 23..31 } \cup { <<2025, 0, d>> : d \in 1..13 }

\* getFullYear(), getMonth(), getDate() of the instant t, in local time.
DateOf(t) ==
    CHOOSE p \in Calendar : MakeDay(p[1], p[2], p[3]) = t \div SecPerDay

\* The instants the clock visits: noon of fourteen consecutive days.
DayPoints ==
    { NewDate(p[1], p[2], p[3], 12, 0, 0) :
        p \in { q \in Calendar : q[1] = 2025 => q[3] <= 6 } \ {<<2024, 11, 23>>} }

TickDay == Advance(DayPoints)

\* Variant: without the fallback to 7.
daysUntilNextMonday_NoFallback(dayOfWeek) == (8 - dayOfWeek) % 7

\* Line 210: (8 - dayOfWeek) % 7 || 7
daysUntilNextMonday(dayOfWeek) ==
    IF (8 - dayOfWeek) % 7 # 0 THEN (8 - dayOfWeek) % 7 ELSE 7

\* Line 211: nextMondayDate, for today = new Date() at the instant t.
nextMondayDate(t) ==
    LET today == DateOf(t)
        dayOfWeek == WeekdayOf(t)
    IN  NewDate(today[1], today[2],
                today[3] + daysUntilNextMonday(dayOfWeek), 0, 0, 0)

WeekdayNames ==
    <<"Sunday", "Monday", "Tuesday", "Wednesday", "Thursday", "Friday", "Saturday">>

TwoDigits(n) == IF n < 10 THEN "0" \o ToString(n) ELSE ToString(n)

\* Line 212: toLocaleDateString('en-GB', {weekday: 'long', day: 'numeric',
\* month: 'numeric'}): the weekday, then day and month in the locale's
\* pattern dd/MM, e.g. "Monday 06/01".
toLocaleDateString(t) ==
    WeekdayNames[WeekdayOf(t) + 1] \o " " \o TwoDigits(DateOf(t)[3])
        \o "/" \o TwoDigits(DateOf(t)[2] + 1)

\* Lines 207-213: the date announced by a response composed at the instant t.
nextMonday(t) == toLocaleDateString(nextMondayDate(t))

\* Lines 34-43: the scheduled channels and their response channels.
ScheduledChannels == {"climbing", "boardgame", "swedish", "crafts"}

\* Lines 202-272: responseChannelId and automaticMessage for a reaction in
\* channel ch at the instant t.  The text is held as the name of its
\* channel, followed for climbing by the date it announces.
responseChannelId(ch) ==
    IF ch \in ScheduledChannels THEN Some("response-" \o ch) ELSE None

automaticMessage(ch, t) ==
    IF ch = "climbing" THEN "climbing " \o nextMonday(t)
    ELSE IF ch \in ScheduledChannels THEN ch
    ELSE "heart"

\* Lines 191-274: the synchronous stretch from the author check to the await
\* of the response channel fetch.  respondedMessages is read (line 198)
\* and nowhere written.
HardBody(hs, m, emoji) ==
    /\ UNCHANGED <<respondedMessages, passes, alreadyLog>>
    /\ IF posted[m].author # "bot" \/ emoji # "heart" THEN handlers' = hs
       ELSE IF m \in respondedMessages THEN handlers' = hs
       ELSE IF ~IsSome(responseChannelId(posted[m].channelId))
       THEN handlers' = hs
       ELSE handlers' =
               Suspend(hs, Handler(m, "fetchChannel",
                                   automaticMessage(posted[m].channelId, now),
                                   responseChannelId(posted[m].channelId)[1],
                                   <<>>))

\* Lines 169-190: the handler from its entry to its first await.
HardEntry(m, how) ==
    IF how = "bot"
    THEN UNCHANGED <<handlers, respondedMessages, passes, alreadyLog>>
    ELSE IF how = "partialR"
    THEN /\ handlers' = Suspend(handlers, Waiting(m, "fetchReaction"))
         /\ UNCHANGED <<respondedMessages, passes, alreadyLog>>
    ELSE IF how = "partialM"
    THEN /\ handlers' = Suspend(handlers, Waiting(m, "fetchMessage"))
         /\ UNCHANGED <<respondedMessages, passes, alreadyLog>>
    ELSE HardBody(handlers, m, how)

HardReactionAdd ==
    /\ reactions < MaxReactions
    /\ reactions' = reactions + 1
    /\ \E m \in 1..Len(posted), how \in {"bot", "partialR", "partialM"} \cup Emojis :
          HardEntry(m, how)
    /\ UNCHANGED schedVars
    /\ UNCHANGED cmdVars
    /\ UNCHANGED <<now, sends, sendLog, started, posted, messageIdToScheduledConfig,
                   outbox, errorLog, unhandled>>

\* Resumption after `await reaction.fetch()` (line 175).
HardReactionFetched ==
    /\ \E h \in BagToSet(handlers), how \in {"throws", "partialM"} \cup Emojis :
          /\ h.pc = "fetchReaction"
          /\ IF how = "throws"
             THEN /\ handlers' = Resume(handlers, h)
                  /\ UNCHANGED <<respondedMessages, passes, alreadyLog>>
             ELSE IF how = "partialM"
             THEN /\ handlers' = Suspend(Resume(handlers, h),
                                         Waiting(h.m, "fetchMessage"))
                  /\ UNCHANGED <<respondedMessages, passes, alreadyLog>>
             ELSE HardBody(Resume(handlers, h), h.m, how)
    /\ UNCHANGED schedVars
    /\ UNCHANGED cmdVars
    /\ UNCHANGED <<now, sends, sendLog, started, posted, messageIdToScheduledConfig,
                   outbox, errorLog, unhandled, reactions>>

\* Resumption after `await reaction.message.fetch()` (line 184).
HardMessageFetched ==
    /\ \E h \in BagToSet(handlers), how \in {"throws"} \cup Emojis :
          /\ h.pc = "fetchMessage"
          /\ IF how = "throws"
             THEN /\ handlers' = Resume(handlers, h)
                  /\ UNCHANGED <<respondedMessages, passes, alreadyLog>>
             ELSE HardBody(Resume(handlers, h), h.m, how)
    /\ UNCHANGED schedVars
    /\ UNCHANGED cmdVars
    /\ UNCHANGED <<now, sends, sendLog, started, posted, messageIdToScheduledConfig,
                   outbox, errorLog, unhandled, reactions>>

\* The messages on the gateway: the reminders the cron jobs of lines 56-165
\* posted into the climbing and the board game channel, a message of the
\* bot in another channel, and a message of a user.
HardPosted ==
    << Message("bot", "climbing", "Friendly reminder", <<>>, None),
       Message("bot", "boardgame", "Friendly reminder", <<>>, None),
       Message("bot", "welcome", "Welcome!", <<>>, None),
       Message("user", "climbing", "hello", <<>>, None) >>

InitHard ==
    StartedWith({ Disk(TRUE, Json(<<>>)) }, {None}, HardPosted, DayPoints)

NextHard ==
    \/ TickDay
    \/ HardReactionAdd
    \/ HardReactionFetched
    \/ HardMessageFetched
    \/ ChannelFetched
    \/ ResponseSettled

SpecHard == InitHard /\ [][NextHard]_vars

(***************************************************************************)
(* A date definition that stays in the file while the triggers are         *)
(* re-armed: the file holds one date definition, POST requests append      *)
(* weekly definitions behind it, the watcher re-arms, time passes and the  *)
(* timers fire.  The sends stay suspended at their channel fetch.          *)
(***************************************************************************)
NextRearm ==
    \/ Ready
    \/ PostWeekly
    \/ Poll
    \/ TickTimer
    \/ TimerFires

SpecRearm == InitTimer /\ [][NextRearm]_vars

(***************************************************************************)
(* The watcher over a file that is damaged: the file holds definitions A   *)
(* and D; an operator overwrites it with text that is no JSON, with        *)
(* something unreadable, or with definition B; the watcher polls, time     *)
(* passes and the armed triggers fire.                                     *)
(***************************************************************************)
WatchTexts == { Garbage, Unreadable, Json(<<DefB>>) }

Overwrite == EditTo(WatchTexts)

InitWatch == Loaded({ Json(<<DefA, DefD>>) })

NextWatch ==
    \/ Ready
    \/ Overwrite
    \/ Poll
    \/ Tick
    \/ CronFire
    \/ TimerFire

SpecWatch == InitWatch /\ [][NextWatch]_vars

(***************************************************************************)
(* The text of a scheduled send: the file holds one weekly or one date     *)
(* definition, with a reminder text or with the empty string as text; its  *)
(* trigger fires and the send runs to its end.                             *)
(***************************************************************************)
DefBlank == [DefA EXCEPT !.messageContent = ""]
DefBlankDate == [DefD EXCEPT !.messageContent = ""]

ContentTexts ==
    { Json(<<DefA>>), Json(<<DefBlank>>), Json(<<DefD>>), Json(<<DefBlankDate>>) }

InitContent == Loaded(ContentTexts)

NextContent ==
    \/ Ready
    \/ Tick
    \/ CronFire
    \/ TimerFire
    \/ SendFetched
    \/ SendSettled
    \/ SendRecorded
    \/ SendReacted

SpecContent == InitContent /\ [][NextContent]_vars

(***************************************************************************)
(* Sends and reaction handling while the definition that is being sent is  *)
(* replaced, disabled or deleted: the file holds definition A, PUT and     *)
(* DELETE requests rewrite it, the watcher re-arms, and the cron job of A  *)
(* fires before or after that.  The marker reaction of the send is left    *)
(* pending.                                                                *)
(***************************************************************************)
NextFlight ==
    \/ Ready
    \/ PutFirst
    \/ Delete
    \/ Poll
    \/ CronFire
    \/ SendFetched
    \/ SendSettled
    \/ SendRecorded
    \/ ReactionAdd
    \/ ReactionFetched
    \/ MessageFetched
    \/ ChannelFetched
    \/ ResponseSettled

SpecFlight == InitStore /\ [][NextFlight]_vars

(***************************************************************************)
(* Properties of the reaction handler.                                     *)
(***************************************************************************)
Messages == 1..Len(posted)

\* The response sends handed to the gateway for message m.
Attempts(m) == { i \in 1..Len(outbox) : outbox[i].m = m }

\* The invocations for message m suspended past the gate.
PastGate(m) ==
    { h \in BagToSet(handlers) : h.m = m /\ h.pc \in {"fetchChannel", "sending"} }

\* C1: for every message id, under every sequence and interleaving of
\* reaction-added events, at most one response send is handed to the
\* gateway.
C1_AtMostOneResponse ==
    \A m \in Messages : Cardinality(Attempts(m)) <= 1

\* A response was sent for m and a later reaction on m was turned away.
C1_Witness ==
    \E m \in Messages :
        /\ Cardinality(Attempts(m)) = 1
        /\ m \in alreadyLog
        /\ BagToSet(handlers) = {}

\* C2: a response sent for a reaction on message m carries the content of
\* one of the automaticResponses of the definition whose trigger sent m, and
\* goes to that definition's responseChannelId.
C2_Correlation ==
    \A i \in 1..Len(outbox) :
        LET e == outbox[i] IN
        /\ IsSome(posted[e.m].origin)
        /\ e.channel = posted[e.m].origin[1].responseChannelId
        /\ \E r \in Range(posted[e.m].origin[1].automaticResponses) :
              e.content = r.content

\* A response was sent for a message of definition B, which posts into the
\* same channel as the enabled definition A listed before it.
C2_Witness ==
    \E i \in 1..Len(outbox) :
        /\ posted[outbox[i].m].origin = Some(DefB)
        /\ outbox[i].channel = "r2"
        /\ Len(scheduledMessages) = 2
        /\ scheduledMessages[1] = DefA
        /\ DefA.channelId = DefB.channelId
        /\ DefA.turnon

\* C4: the test of line 1242 and the insertion of line 1246 are one step:
\* for every message id, at most one handler run finds the id absent.
C4_GateAtomic ==
    \A m \in Messages : CopiesIn(m, passes) <= 1

\* While the run that passed the gate for m is suspended at an await, a
\* second run for m has reached the gate and was turned away.
C4_Witness ==
    \E m \in Messages :
        /\ CopiesIn(m, passes) = 1
        /\ PastGate(m) # {}
        /\ m \in alreadyLog

\* C5: whenever the response channel is being fetched or a response send
\* has been handed to the gateway for message m, m is in respondedMessages.
C5_InsertBeforeSend ==
    /\ \A i \in 1..Len(outbox) : outbox[i].m \in respondedMessages
    /\ \A h \in BagToSet(handlers) :
          h.pc \in {"fetchChannel", "sending"} => h.m \in respondedMessages

\* A handler is suspended at the response send it has just attempted.
C5_Witness ==
    \E h \in BagToSet(handlers) :
        /\ h.pc = "sending"
        /\ Attempts(h.m) # {}
        /\ h.m \in respondedMessages

\* C6: once the response to m failed at the channel fetch or at the send,
\* m stays in respondedMessages, nothing escaped the handler, no run for m
\* is past the gate, and the sends attempted for m are the one that failed
\* (none if the fetch failed).
C6_FailureIsFinal ==
    \A f \in errorLog :
        /\ f.m \in respondedMessages
        /\ unhandled = 0
        /\ PastGate(f.m) = {}
        /\ Cardinality(Attempts(f.m)) = (IF f.at = "send" THEN 1 ELSE 0)

\* The response to m failed at the channel fetch and a later reaction on m
\* was turned away.
C6_Witness ==
    \E f \in errorLog :
        /\ f.at = "fetch"
        /\ f.m \in alreadyLog
        /\ Attempts(f.m) = {}

(***************************************************************************)
(* Properties of the scheduler.                                            *)
(***************************************************************************)
\* The definitions of the in-memory set.
Defs == Range(scheduledMessages)

EligibleWeekly(d) ==
    /\ d.turnon /\ d.type = "weekly"
    /\ IsSome(d.hour) /\ IsSome(d.minutes) /\ IsSome(d.seconds)
    /\ IsSome(d.dayoftheweek)

ValidDate(d) ==
    /\ d.turnon /\ d.type = "date"
    /\ Truthy(d.year) /\ Truthy(d.month) /\ Truthy(d.day) /\ IsSome(d.time)

LeadDays(d) ==
    IF IsSome(d.daybefore) /\ d.daybefore[1] > 0 THEN d.daybefore[1] ELSE 0

\* The one-shot timestamps of a date definition: the main one and, with
\* lead days, the one that many days of 86400 seconds earlier.
Stamps(d) ==
    {dateObj(d)} \cup
    (IF LeadDays(d) > 0 THEN {dateObj(d) - LeadDays(d) * 86400} ELSE {})

\* The triggers a definition set implies at time t, as <<kind, at, msg>>.
Implied(t) ==
    { <<"cron", 0, d>> : d \in { e \in Defs : EligibleWeekly(e) } }
    \cup UNION { { <<"timeout", a, d>> : a \in { b \in Stamps(d) : b > t } }
                 : d \in { e \in Defs : ValidDate(e) } }

\* The timers in cronJobs that belong to definition d.
TimersOf(d) == { h \in Range(cronJobs) : h.kind = "timeout" /\ h.msg = d }

Armed == armedAt.calls > 0

\* C3: after any scheduleAllMessages call that follows an earlier one, the
\* live triggers are those the latest set implies (one cron job per eligible
\* weekly definition, one timer per future date timestamp) less the timers
\* that have fired since; no trigger of an earlier call is live, and
\* cronJobs holds only handles the latest call created.
C3_RearmAtomicity ==
    Armed =>
        /\ live \subseteq Range(cronJobs)
        /\ \A h \in Range(cronJobs) :
              /\ h.id >= nextHandle - Len(cronJobs)
              /\ h.id < nextHandle
              /\ h \notin live => h.kind = "timeout" /\ now >= h.at
        /\ { <<h.kind, h.at, h.msg>> : h \in Range(cronJobs) }
              = Implied(armedAt.time)
        /\ Len(cronJobs) = Cardinality(Implied(armedAt.time))

\* A second call has replaced the handles of an earlier call, a timer among
\* them, and its own handles, all cron jobs, are all live.
C3_Witness ==
    /\ armedAt.calls >= 2
    /\ nextHandle > 2 + Len(cronJobs)
    /\ cronJobs # <<>>
    /\ live = Range(cronJobs)
    /\ \A h \in Range(cronJobs) : h.kind = "cron"

\* C8: when scheduleAllMessages ran at time t, no timer is armed for a
\* timestamp of an enabled date definition that is not strictly after t.
C8_PastNotArmed ==
    Armed =>
        \A d \in Defs : ValidDate(d) =>
            \A h \in TimersOf(d) : h.at > armedAt.time

\* scheduleAllMessages ran at the very instant of a definition's main
\* timestamp, and armed nothing for it.
C8_Witness ==
    /\ Armed
    /\ \E d \in Defs :
          /\ ValidDate(d)
          /\ dateObj(d) = armedAt.time
          /\ TimersOf(d) = {}

\* C9: for an enabled date definition with valid fields and lead days
\* n > 0, scheduleAllMessages at time t arms two timers (lead and main)
\* when the lead timestamp is after t, the main one alone when only the
\* main timestamp is after t, and none when both are past.
C9_LeadTimers ==
    Armed =>
        \A d \in Defs : (ValidDate(d) /\ LeadDays(d) > 0) =>
            LET t == armedAt.time
                main == dateObj(d)
                lead == main - LeadDays(d) * 86400
                ats == { h.at : h \in TimersOf(d) }
            IN  /\ Cardinality(TimersOf(d)) = Cardinality(ats)
                /\ lead > t => ats = {lead, main} /\ lead # main
                /\ (main > t /\ lead <= t) => ats = {main}
                /\ main <= t => ats = {}

\* scheduleAllMessages ran between the lead and the main timestamp of a
\* definition and armed the main timer only.
C9_Witness ==
    /\ Armed
    /\ \E d \in Defs :
          /\ ValidDate(d) /\ LeadDays(d) > 0
          /\ dateObj(d) > armedAt.time
          /\ dateObj(d) - LeadDays(d) * 86400 < armedAt.time
          /\ Cardinality(TimersOf(d)) = 1

\* C7: once the file has been modified to parseable content and the watcher
\* has observed its latest state, the in-memory set is the file's content.
C7_HotReload ==
    (file.ctime > 1 /\ Stat(file) = watchPrev /\ JSONparse(file.text).ok)
        => scheduledMessages = JSONparse(file.text).value

\* The same for a file whose last write carried the clock's time.
C7_ClockStamped ==
    (file.ctime > 1 /\ Stat(file) = watchPrev /\ JSONparse(file.text).ok
     /\ file.mtime = file.ctime)
        => scheduledMessages = JSONparse(file.text).value

(***************************************************************************)
(* The calendar, from a table of month lengths: seconds from               *)
(* 1970-01-01T00:00:00 to the given local date and time.                   *)
(***************************************************************************)
DaysBeforeMonth == <<0, 31, 59, 90, 120, 151, 181, 212, 243, 273, 304, 334>>

IsLeap(y) == (y % 4 = 0 /\ y % 100 # 0) \/ y % 400 = 0

CalendarSeconds(y, mo, d, hh, mm, ss) ==
    LET leaps == Cardinality({ z \in 1970..(y - 1) : IsLeap(z) })
        extra == IF IsLeap(y) /\ mo > 2 THEN 1 ELSE 0
        days  == (y - 1970) * 365 + leaps + DaysBeforeMonth[mo] + extra + (d - 1)
    IN  days * 86400 + hh * 3600 + mm * 60 + ss

\* Component i of a time string, 0 when missing or not a number.
Component(time, i) ==
    IF i <= Len(time) /\ time[i] # <<>> THEN time[i][1] ELSE 0

\* The fire timestamps the calendar gives a date definition.
CalendarStamps(d) ==
    LET main == CalendarSeconds(d.year[1], d.month[1], d.day[1],
                                Component(d.time, 1), Component(d.time, 2),
                                Component(d.time, 3))
    IN  {main} \cup
        (IF d.daybefore # <<>> /\ d.daybefore[1] > 0
         THEN {main - d.daybefore[1] * 86400} ELSE {})

\* C10: the timers armed for a date definition are at the calendar
\* timestamp of its year, month (1-12), day and HH:MM:SS, missing
\* components taken as 0, and, with daybefore = n > 0, at that timestamp
\* minus n * 86400 seconds, each when it is after the arming time.
C10_Timestamps ==
    Armed =>
        \A d \in Defs : ValidDate(d) =>
            { h.at : h \in TimersOf(d) }
                = { a \in CalendarStamps(d) : a > armedAt.time }

\* 2025-01-10 12:00:00 with three lead days, armed on 2025-01-01, has timers
\* at 2025-01-07T12:00:00 and 2025-01-10T12:00:00.
C10_Witness ==
    /\ Armed
    /\ armedAt.time = CalendarSeconds(2025, 1, 1, 0, 0, 0)
    /\ \E d \in Defs :
          /\ d.year = <<2025>> /\ d.month = <<1>> /\ d.day = <<10>>
          /\ d.time = <<<<12>>, <<0>>, <<0>>>>
          /\ d.daybefore = <<3>>
          /\ { h.at : h \in TimersOf(d) }
                = { CalendarSeconds(2025, 1, 7, 12, 0, 0),
                    CalendarSeconds(2025, 1, 10, 12, 0, 0) }
          /\ CalendarSeconds(2025, 1, 10, 12, 0, 0) = 1736510400

(***************************************************************************)
(* Properties of the weekly branch.                                        *)
(***************************************************************************)
\* The cron jobs in cronJobs that belong to definition d.
CronJobsOf(d) == { h \in Range(cronJobs) : h.kind = "cron" /\ h.msg = d }

\* Instant t is second d.seconds of minute d.minutes of hour d.hour of
\* weekday d.dayoftheweek: t + 4 days is that far into a week counted from
\* a Sunday midnight, 1970-01-01 being a Thursday.
AtFields(d, t) ==
    (t + 4 * 86400) % (7 * 86400)
        = d.dayoftheweek[1] * 86400 + d.hour[1] * 3600
          + d.minutes[1] * 60 + d.seconds[1]

\* The sends started by the step: those of sends' beyond sends.
StartedNow(s) == CopiesIn(s, sends') > CopiesIn(s, sends)

\* C11: an enabled weekly definition with its four fields present has
\* exactly one cron job, live, in the definition's zone, whose rule is due
\* at exactly the instants that are second = seconds, minute = minutes,
\* hour = hour on weekday = dayoftheweek; and a send of a weekly definition
\* starts only at such an instant.
C11_WeeklyRule ==
    /\ [](Armed =>
            \A d \in Defs : EligibleWeekly(d) =>
                /\ Cardinality(CronJobsOf(d)) = 1
                /\ \A h \in CronJobsOf(d) :
                      /\ h \in live
                      /\ h.timezone = d.timezone[1]
                      /\ \A t \in WeekPoints :
                            Due(h.cronStr, t) <=> AtFields(d, t))
    /\ [][\A s \in BagToSet(sends') :
            (StartedNow(s) /\ s.msg.type = "weekly") => AtFields(s.msg, now)]_vars

\* Armed on 2025-01-01, the rule for Tuesday 12:30:00 has fired on Tuesday
\* 14 January at 12:30:00, its second due instant.
C11_Witness ==
    /\ Armed
    /\ armedAt.time = CalendarSeconds(2025, 1, 1, 0, 0, 0)
    /\ now = CalendarSeconds(2025, 1, 14, 12, 30, 0)
    /\ \E s \in BagToSet(sends) :
          /\ s.msg \in Defs
          /\ s.msg.dayoftheweek = <<2>> /\ s.msg.hour = <<12>>
          /\ s.msg.minutes = <<30>> /\ s.msg.seconds = <<0>>

\* C12: after any scheduleAllMessages call no live trigger belongs to a
\* definition that is disabled in the set passed to the call, by object or
\* by name, and every scheduled send was started for an enabled definition.
C12_DisabledNeverArmed ==
    /\ Armed =>
          \A h \in live :
              /\ h.msg.turnon
              /\ \A d \in Defs : ~d.turnon => h.msg.name # d.name
    /\ \A s \in BagToSet(sends) : s.msg.turnon

\* Definition A was armed and has fired; a reload then brought the set in
\* which A is disabled, and the triggers of that set are live.
C12_Witness ==
    /\ armedAt.calls >= 2
    /\ DefOff \in Defs
    /\ live # {}
    /\ \E s \in BagToSet(sends) : s.msg = DefA

(***************************************************************************)
(* Properties of skipped definitions.                                      *)
(***************************************************************************)
\* Definition d lacks a field its type requires, or its type is unknown.
Lacking(d) ==
    \/ /\ d.type = "weekly"
       /\ \E f \in {"hour", "minutes", "seconds", "dayoftheweek"} : d[f] = <<>>
    \/ /\ d.type = "date"
       /\ \E f \in {"year", "month", "day", "time"} : d[f] = <<>>
    \/ d.type \notin {"weekly", "date"}

\* The handles in cronJobs that belong to definition d.
HandlesOf(d) == { h \in Range(cronJobs) : h.msg = d }

\* C13: a definition that lacks a field of its type, or is of an unknown
\* type, has no handle after scheduleAllMessages, and every eligible
\* definition of the same set, before or after it, has its handles: one
\* live cron job if weekly, one live timer per timestamp after the arming
\* time if dated.
C13_SkipAndContinue ==
    Armed =>
        \A d \in Defs :
            /\ Lacking(d) => HandlesOf(d) = {}
            /\ (~Lacking(d) /\ d.turnon /\ d.type = "weekly") =>
                  /\ Cardinality(HandlesOf(d)) = 1
                  /\ HandlesOf(d) \subseteq live
                  /\ \A h \in HandlesOf(d) : h.kind = "cron"
            /\ (~Lacking(d) /\ d.turnon /\ d.type = "date") =>
                  /\ { h.at : h \in HandlesOf(d) }
                        = { a \in CalendarStamps(d) : a > armedAt.time }
                  /\ HandlesOf(d) \subseteq live

\* A skipped definition stands between two eligible ones, and both of
\* those are armed.
C13_Witness ==
    /\ Armed
    /\ Len(scheduledMessages) = 3
    /\ Lacking(scheduledMessages[2])
    /\ HandlesOf(scheduledMessages[2]) = {}
    /\ HandlesOf(scheduledMessages[1]) # {}
    /\ HandlesOf(scheduledMessages[3]) # {}

(***************************************************************************)
(* Properties of sendScheduledMessage.                                     *)
(***************************************************************************)
\* Failures logged for a channel that could not be resolved.
Unresolved == { f \in sendLog : f.at \in {"channel", "fetch"} }

\* C19: in the step in which the channel fetch of a send for definition D
\* ends without a text-based channel (nothing, a non-text channel, or a
\* rejection), nothing is posted, no record is inserted, nothing escapes,
\* and every armed trigger stays armed, D's own cron job among them; and a
\* failure that was logged never comes with an escaped exception.
C19_UnresolvedChannel ==
    /\ [](Unresolved # {} => unhandled = 0)
    /\ [][ \A s \in BagToSet(sends) :
             (s.pc = "fetch" /\ sends' = Returned(s)) =>
                /\ sendLog' \ sendLog \subseteq Unresolved'
                /\ posted' = posted
                /\ messageIdToScheduledConfig' = messageIdToScheduledConfig
                /\ unhandled' = unhandled
                /\ live' = live
                /\ cronJobs' = cronJobs
                /\ s.msg.type = "weekly" =>
                      \E h \in live' : h.kind = "cron" /\ h.msg = s.msg ]_vars

\* The send for a definition ended at a channel that is not text-based:
\* nothing was posted or recorded and its cron job is still registered.
C19_Witness ==
    /\ \E f \in sendLog :
          /\ f.at = "channel"
          /\ \E h \in live : h.kind = "cron" /\ h.msg.name = f.name
    /\ started = 1
    /\ sends = EmptyBag
    /\ \A i \in 1..Len(posted) : posted[i].origin = None
    /\ messageIdToScheduledConfig = <<>>
    /\ unhandled = 0

\* Failures logged for a marker reaction that was rejected.
MarkerFailed == { f \in sendLog : f.at = "react" }

\* C20: while the marker reaction on a sent message M of definition D is
\* being attempted, the record M -> D is in the map; once the reaction was
\* rejected the record is still there and nothing has escaped; and a later
\* reaction on M that passes the gate is answered from D: its handler goes
\* on to fetch D's response channel with one of D's responses.
C20_RecordSurvives ==
    /\ [](\A s \in BagToSet(sends) :
             s.pc = "react" =>
                /\ s.id \in DOMAIN messageIdToScheduledConfig
                /\ messageIdToScheduledConfig[s.id] = s.msg)
    /\ [](\A f \in MarkerFailed :
             /\ f.id \in DOMAIN messageIdToScheduledConfig
             /\ Some(messageIdToScheduledConfig[f.id]) = posted[f.id].origin
             /\ unhandled = 0)
    /\ [][ \A f \in MarkerFailed :
             LET D == posted[f.id].origin[1] IN
             (CopiesIn(f.id, passes') > CopiesIn(f.id, passes)
                 /\ D.turnon /\ Len(D.automaticResponses) > 0) =>
                \E h \in BagToSet(handlers') :
                   /\ h.m = f.id
                   /\ h.pc = "fetchChannel"
                   /\ h.channel = D.responseChannelId
                   /\ \E r \in Range(D.automaticResponses) :
                         h.content = r.content ]_vars

\* The marker reaction on a sent message was rejected, and a response to a
\* reaction on that message was handed to the gateway for the response
\* channel of its definition.
C20_Witness ==
    \E f \in MarkerFailed :
        /\ sends = EmptyBag
        /\ \E i \in 1..Len(outbox) :
              /\ outbox[i].m = f.id
              /\ outbox[i].channel = messageIdToScheduledConfig[f.id].responseChannelId

(***************************************************************************)
(* Properties of startup.                                                  *)
(***************************************************************************)
\* The text is no JSON.
Unparseable(text) == text.kind = "garbage"

\* The text is no JSON, or is JSON that is no array of definition objects.
Malformed(text) ==
    \/ Unparseable(text)
    \/ text.kind = "json" /\ \E i \in 1..Len(text.value) : text.value[i] = NullText

\* C14: while the file is the malformed one found at startup, the
\* in-memory set is empty, no exception has escaped (at load or in the
\* ready handler), and no trigger is armed.
C14_MalformedLoad ==
    (file.ctime = 1 /\ Malformed(file.text)) =>
        /\ scheduledMessages = <<>>
        /\ unhandled = 0
        /\ cronJobs = <<>>
        /\ live = {}

\* The same for text that is no JSON.
C14_Unparseable ==
    (file.ctime = 1 /\ Unparseable(file.text)) =>
        /\ scheduledMessages = <<>>
        /\ unhandled = 0
        /\ cronJobs = <<>>
        /\ live = {}

\* The ready handler has run on the value loaded from text that is no JSON.
C14_UnparseableReady ==
    /\ Unparseable(file.text)
    /\ ready
    /\ armedAt.calls = 1

\* C15: if the file did not exist at startup, it has been created with the
\* default set, and the set in memory is the default set, in order.
C15_DefaultCreated ==
    startup.text = Absent =>
        /\ file.text = JSONstringify(defaultScheduledMessages)
        /\ scheduledMessages = defaultScheduledMessages

\* The same where the assets directory existed at startup.
C15_InDirectory ==
    (startup.text = Absent /\ startup.dir) =>
        /\ file.text = JSONstringify(defaultScheduledMessages)
        /\ scheduledMessages = defaultScheduledMessages

\* The file was missing from an existing directory, and the process has
\* become ready with what it loaded.
C15_CreatedReady ==
    /\ startup = Disk(TRUE, Absent)
    /\ ready
    /\ Len(cronJobs) = Len(defaultScheduledMessages)

(***************************************************************************)
(* Properties of the CRUD endpoints.                                       *)
(***************************************************************************)
\* C16: a step of POST, PUT or DELETE (the file or the HTTP response
\* changes) leaves the in-memory set, the armed triggers, the SendRecord map
\* and the responded set unchanged; the armed triggers change only in a
\* step of the ready handler or of the watch callback that runs
\* scheduleAllMessages.
C16_CrudFrame ==
    [][ /\ (req' # req \/ file' # file \/ res' # res) =>
              UNCHANGED <<scheduledMessages, cronJobs, live,
                          messageIdToScheduledConfig, respondedMessages>>
        /\ (cronJobs' # cronJobs \/ live' # live) =>
              /\ armedAt.calls' = armedAt.calls + 1
              /\ ready' # ready \/ watchPrev' # watchPrev ]_vars

\* A POST has succeeded while triggers are armed and a send is recorded,
\* and the file no longer holds what is in memory.
C16_Witness ==
    /\ res.status = 201
    /\ cronJobs # <<>>
    /\ messageIdToScheduledConfig # <<>>
    /\ JSONparse(file.text).value # scheduledMessages

\* The sequence the file holds.
Persisted(f) == JSONparse(f.text).value

\* C17: in a step of a CRUD request on a file that holds a sequence S of
\* length n: POST with x persists S followed by x and answers success with
\* x; PUT at i in 0..n-1 persists S with position i alone replaced by x and
\* answers success with x; DELETE at i in 0..n-1 persists S without element
\* i, the others in order, and answers success with the removed element.
C17_CrudFunctional ==
    [][ LET P == JSONparse(file.text)
            S == P.value
            n == Len(S)
            i == parseInt(req'.index[1])[1]
            x == req'.body[1]
            Holds(T) == JSONparse(file'.text) = [ok |-> TRUE, value |-> T]
        IN  ((req' # req \/ res' # res \/ file' # file) /\ P.ok) =>
              /\ req'.method = "POST" =>
                    /\ Holds(S \o <<x>>)
                    /\ res'.success /\ res'.data = <<x>>
              /\ (req'.method = "PUT" /\ 0 <= i /\ i < n) =>
                    /\ Holds([ j \in 1..n |-> IF j = i + 1 THEN x ELSE S[j] ])
                    /\ res'.success /\ res'.data = <<x>>
              /\ (req'.method = "DELETE" /\ 0 <= i /\ i < n) =>
                    /\ Holds([ j \in 1..n - 1 |->
                                 IF j <= i THEN S[j] ELSE S[j + 1] ])
                    /\ res'.success /\ res'.data = <<S[i + 1]>> ]_vars

\* A DELETE has removed the first of two elements.
C17_Witness ==
    /\ req = Request("DELETE", Some(<<"0">>), None)
    /\ res.status = 200
    /\ Len(Persisted(file)) = MaxDefs - 1
    /\ file.ctime > 1

\* C18: while the file holds a set S the process wrote (by a CRUD handler,
\* or as the default set), every read of it yields S, element by element
\* in order: the initial load, GET /scheduledMessages, and the reload by
\* the watch callback.
C18_RoundTrip ==
    /\ [](written # None =>
            /\ InitialLoad(file.text) = written[1]
            /\ file.ctime = 1 => scheduledMessages = written[1])
    /\ [][ /\ (written # None /\ req'.method = "GET"
                  /\ (req' # req \/ res' # res)) =>
                 /\ res'.success
                 /\ res'.data = written
           /\ (written # None /\ watchPrev' # watchPrev) =>
                 scheduledMessages' = written[1] ]_vars

\* GET has returned a two-element set written by a CRUD handler, after the
\* watcher reloaded it.
C18_Witness ==
    /\ file.ctime > 1
    /\ written # None
    /\ Len(written[1]) = MaxDefs
    /\ written[1][1] # written[1][2]
    /\ req.method = "GET"
    /\ res.data = written
    /\ watchPrev = Stat(file)
    /\ scheduledMessages = written[1]

(***************************************************************************)
(* Properties of the SendRecord map.                                       *)
(***************************************************************************)
\* C21: a record M -> D of the map is there, unchanged, after every step
\* (of the reaction handler, of scheduleAllMessages, of a reload); and
\* every key of the map is the id of a message a scheduled send posted,
\* mapped to the definition that send was for.
C21_RecordPermanent ==
    /\ [](\A m \in DOMAIN messageIdToScheduledConfig :
             /\ m \in 1..Len(posted)
             /\ posted[m].author = "bot"
             /\ posted[m].origin = Some(messageIdToScheduledConfig[m]))
    /\ [][ \A m \in DOMAIN messageIdToScheduledConfig :
             /\ m \in DOMAIN messageIdToScheduledConfig'
             /\ messageIdToScheduledConfig'[m] = messageIdToScheduledConfig[m]
         ]_vars

\* The record of a message is in the map after the first response to it
\* was sent and after a reload replaced the set in memory and re-armed.
C21_Witness ==
    \E m \in DOMAIN messageIdToScheduledConfig :
        /\ \E i \in 1..Len(outbox) : outbox[i].m = m
        /\ BagToSet(handlers) = {}
        /\ armedAt.calls >= 2
        /\ messageIdToScheduledConfig[m] \notin Range(scheduledMessages)

(***************************************************************************)
(* Properties of the reaction filter.                                      *)
(***************************************************************************)
\* The invocations a step of the handler can leave behind: all of them, or
\* all but the one that resumes after the fetch of a partial.
Others ==
    {handlers} \cup
    { Resume(handlers, h) : h \in { w \in BagToSet(handlers) :
                                     w.pc \in {"fetchReaction", "fetchMessage"} } }

\* The step sends no response, starts none and leaves the RespondedSet alone.
Dropped ==
    /\ respondedMessages' = respondedMessages
    /\ outbox' = outbox
    /\ passes' = passes
    /\ \A m \in Messages : PastGate(m)' \subseteq PastGate(m)

\* C22: a reaction made by a bot account, or with another emoji than the
\* marker, or on a message the bot did not write, sends no response and
\* leaves the RespondedSet as it was (so a message in no RespondedSet stays
\* out of it); a message the bot did not write is never in the RespondedSet
\* and never has a response.
C22_Filter ==
    /\ [](\A m \in Messages : posted[m].author # "bot" =>
             /\ m \notin respondedMessages
             /\ Attempts(m) = {}
             /\ PastGate(m) = {})
    /\ [][ \A m \in Messages :
             /\ Entry(m, "bot") => Dropped
             /\ \A emoji \in Emojis, hs \in Others :
                    (emoji # "heart" \/ posted[m].author # "bot")
                       /\ Body(hs, m, emoji) => Dropped
         ]_vars

\* Two reaction events were delivered and every invocation has returned; one
\* of them went through the gate and was answered, the other was dropped
\* before the gate and no "already responded" was logged.
C22_Witness ==
    \E m \in Messages :
        /\ reactions = 2
        /\ BagToSet(handlers) = {}
        /\ passes = SetToBag({m})
        /\ alreadyLog = {}
        /\ Cardinality(Attempts(m)) = 1

\* C23: a message id without record in messageIdToScheduledConfig has no
\* response send and no invocation on its way to one; so a marker reaction
\* of a member on a message the bot wrote outside a scheduled send, which
\* passes the gate, sends nothing.
C23_NoRecordNoResponse ==
    \A m \in Messages :
        m \notin DOMAIN messageIdToScheduledConfig =>
            /\ Attempts(m) = {}
            /\ PastGate(m) = {}

\* A marker reaction on a bot-written message that no scheduled send posted
\* went through the gate and the handler returned without a send, while the
\* message of a scheduled send was answered.
C23_Witness ==
    \E m \in Messages :
        /\ posted[m].author = "bot"
        /\ posted[m].origin = None
        /\ m \notin DOMAIN messageIdToScheduledConfig
        /\ m \in respondedMessages
        /\ BagToSet(handlers) = {}
        /\ Attempts(m) = {}
        /\ Len(outbox) = 1

\* The definition has at least one automatic response.
HasResponses(D) ==
    IsArray(D.automaticResponses) /\ Len(D.automaticResponses) > 0

\* C24: a message whose recorded definition is disabled, or has no
\* automaticResponses key, or an empty automaticResponses array, has no
\* invocation at the response channel fetch or at the send and no response
\* send, whatever reactions were handled.
C24_NothingToSend ==
    \A m \in DOMAIN messageIdToScheduledConfig :
        LET D == messageIdToScheduledConfig[m] IN
        (~D.turnon \/ ~HasResponses(D)) =>
            /\ PastGate(m) = {}
            /\ Attempts(m) = {}

\* A marker reaction on the message of a definition with an empty
\* automaticResponses array went through the gate and the handler returned:
\* nothing was fetched, sent or logged as a failure.
C24_Witness ==
    \E m \in DOMAIN messageIdToScheduledConfig :
        /\ messageIdToScheduledConfig[m] = DefMute
        /\ m \in respondedMessages
        /\ BagToSet(handlers) = {}
        /\ outbox = <<>>
        /\ errorLog = {}

\* The same for a definition without the automaticResponses key.
C24_MissingKey ==
    \E m \in DOMAIN messageIdToScheduledConfig :
        /\ messageIdToScheduledConfig[m] = DefBare
        /\ m \in respondedMessages
        /\ BagToSet(handlers) = {}
        /\ outbox = <<>>

\* Every recorded definition was enabled when its trigger was armed, and is
\* recorded as it was then.
C24_RecordsEnabled ==
    \A m \in DOMAIN messageIdToScheduledConfig :
        messageIdToScheduledConfig[m].turnon

\* The definition attaches an image to its responses.
HasImages(D) == D.imageturnon /\ IsArray(D.Images) /\ Len(D.Images) > 0

\* C25: a response sent for a message of definition D has the content of
\* exactly one element of D.automaticResponses, at an index within the
\* array; with imageturnon set and a non-empty Images array it has exactly
\* one attachment, the Imgurl of an element of D.Images, and otherwise none.
C25_ResponseShape ==
    \A i \in 1..Len(outbox) :
        LET e == outbox[i]
            D == messageIdToScheduledConfig[e.m]
        IN  /\ HasResponses(D)
            /\ Cardinality({ k \in 1..Len(D.automaticResponses) :
                               D.automaticResponses[k].content = e.content }) = 1
            /\ IF HasImages(D)
               THEN /\ Len(e.files) = 1
                    /\ \E j \in 1..Len(D.Images) : e.files[1] = D.Images[j].Imgurl
               ELSE e.files = <<>>

\* A response with the second of A's two responses and A's image.
C25_Witness ==
    \E i \in 1..Len(outbox) :
        /\ messageIdToScheduledConfig[outbox[i].m] = DefA
        /\ outbox[i].content = DefA.automaticResponses[2].content
        /\ outbox[i].files = << DefA.Images[1].Imgurl >>

\* A response without attachment for a definition with images and
\* imageturnon false, and for one with imageturnon true and no Images key.
C25_ImagesOff ==
    \E i \in 1..Len(outbox) :
        /\ messageIdToScheduledConfig[outbox[i].m] = DefB
        /\ outbox[i].files = <<>>
C25_NoImages ==
    \E i \in 1..Len(outbox) :
        /\ messageIdToScheduledConfig[outbox[i].m] = DefPlain
        /\ outbox[i].files = <<>>

\* C26: the step in which the response channel fetch for m ends without a
\* text-based channel sends nothing and ends the invocation; from then on m
\* has no response send and no invocation that could fetch or send again.
C26_UnresolvedResponseChannel ==
    /\ [](\A m \in Messages : Failure(m, "fetch") \in errorLog =>
             /\ Attempts(m) = {}
             /\ PastGate(m) = {})
    /\ [][ \A m \in Messages :
             (Failure(m, "fetch") \in errorLog' /\ Failure(m, "fetch") \notin errorLog) =>
                /\ outbox' = outbox
                /\ Active(handlers') = Active(handlers) - 1
                /\ Cardinality(PastGate(m)) = 1
                /\ PastGate(m)' = {}
         ]_vars

\* The response channel of m did not resolve, a second marker reaction on m
\* was delivered and every invocation has returned: nothing was sent.
C26_Witness ==
    \E m \in Messages :
        /\ errorLog = {Failure(m, "fetch")}
        /\ reactions = 2
        /\ m \in alreadyLog
        /\ BagToSet(handlers) = {}
        /\ outbox = <<>>

(***************************************************************************)
(* Properties of the triggers across reloads.                              *)
(***************************************************************************)
\* The handles created by the most recent scheduleAllMessages call: handle
\* ids are issued in order and cronJobs holds the pushes of that call.
Latest ==
    { h \in Range(cronJobs) :
        h.id >= nextHandle - Len(cronJobs) /\ h.id < nextHandle }

\* C27: once scheduleAllMessages has been called, every step that starts a
\* scheduled send is the callback of a live trigger that the most recent
\* call created; and no two live triggers stand for the same occurrence of
\* the same definition, so an occurrence starts one send, not two.
C27_OnlyLatestFires ==
    /\ [](Armed => \A g, h \in live :
             (g.msg = h.msg /\ g.kind = h.kind /\ g.at = h.at) => g = h)
    /\ [][ \A s \in BagToSet(sends') : StartedNow(s) =>
             \E h \in live :
                /\ h \in Latest
                /\ h.msg = s.msg
                /\ h.kind = "timeout" => h \notin live'
         ]_vars

\* The set loaded at startup and the set of a later reload both hold
\* definition A; after the second scheduleAllMessages call one cron job of A
\* is live, created by that call, and it has started a send.
C27_Witness ==
    /\ startup.text = Json(<<DefA, DefB>>)
    /\ scheduledMessages = <<DefA, DefD>>
    /\ armedAt.calls = 2
    /\ Cardinality({ h \in live : h.msg = DefA }) = 1
    /\ \A h \in live : h.msg = DefA => h.id >= 2
    /\ \E s \in BagToSet(sends) : s.msg = DefA

(***************************************************************************)
(* Properties of the one-shot timers.                                      *)
(***************************************************************************)
\* The timers of the latest call that have fired: they are in cronJobs and
\* no longer live.
Fired == { h \in Range(cronJobs) : h.kind = "timeout" /\ h \notin live }

\* C28: a one-shot trigger armed for timestamp T does not fire before T,
\* whatever the delay T - now.
C28_NotBeforeTarget ==
    \A h \in Fired : now >= h.at

\* The same for the delays the timer holds, those of at most TIMEOUT_MAX
\* milliseconds: a timer armed for T fires once, at T or later.
C28_WithinRange ==
    /\ \A h \in Fired :
          h.at - armedAt.time <= TIMEOUT_MAX \div MsPerSec => now >= h.at
    /\ \A h \in Range(cronJobs) :
          (h.kind = "timeout" /\ h.at - armedAt.time <= TIMEOUT_MAX \div MsPerSec)
             => h.due = h.at

\* The timer of DefEdge, armed with the largest delay drawn that the timer
\* holds, has fired at its timestamp.
C28_EdgeFired ==
    \E h \in Fired :
        /\ h.msg = DefEdge
        /\ armedAt.time = NewDate(2025, 0, 1, 0, 0, 0)
        /\ now = h.at

(***************************************************************************)
(* Properties of the admin commands.                                       *)
(***************************************************************************)
\* The replies to message n and the invocations running for it.
RepliesTo(n) == { r \in replies : r.n = n }
InvocationsOf(n) == { h \in BagToSet(commands) : h.n = n }

\* The replies the step sends.
Sent == replies' \ replies

\* C29: a command of a member without the admin role gets the
\* permission-denied reply and nothing else, and a message of a bot gets
\* nothing; the step that delivers either leaves the channel list and the
\* image data unchanged, and every step that changes one of them sends a
\* reply to a message of an admin.
C29_AdminGate ==
    /\ [](\A n \in 1..Len(received) :
             LET msg == received[n] IN
             /\ msg.author = "bot" =>
                   RepliesTo(n) = {} /\ InvocationsOf(n) = {}
             /\ (msg.author = "member" /\ Route(msg) # "none") =>
                   /\ RepliesTo(n) = {Reply(n, Denied, <<>>)}
                   /\ InvocationsOf(n) = {})
    /\ [][ (Len(received') > Len(received)
              /\ received'[Len(received')].author # "admin")
             => config' = config /\ imageData' = imageData ]_vars
    /\ [][ (config' # config \/ imageData' # imageData) =>
             \E r \in Sent : received'[r.n].author = "admin" ]_vars

\* Channel 1 is in the list and has image data stored by an admin's !pics;
\* a member without the role then asked to remove it and was denied.
C29_Witness ==
    /\ Len(received) = 2
    /\ received[1] = Msg("admin", "!pics", <<"1">>)
    /\ received[2] = Msg("member", "!cc-pic-channel-remove", <<"1">>)
    /\ RepliesTo(2) = {Reply(2, Denied, <<>>)}
    /\ Includes(getChannelList, "1")
    /\ imageData["1"] = Some({"u1"})

NoDuplicate(list) ==
    \A i, j \in 1..Len(list) : list[i] = list[j] => i = j

\* list without its element at position pos.
Without(list, pos) ==
    [ i \in 1..(Len(list) - 1) |-> IF i < pos THEN list[i] ELSE list[i + 1] ]

Withdrawn(D) ==
    /\ D \notin Range(scheduledMessages)
    /\ \A h \in live : h.msg # D

\* The step takes one copy of the suspended send s out of sends.
Leaves(s) == CopiesIn(s, sends') < CopiesIn(s, sends)

\* C31: a call of scheduleAllMessages leaves every suspended send where it
\* is; a send suspended at the channel fetch, at channel.send or before the
\* insertion can always be resumed, whatever the set in memory; it leaves
\* its await only by going on (to the send with a text channel, to the
\* insertion with the posted message, to the marker reaction with the
\* record M -> D inserted) or with a logged failure of that await; and a
\* reaction on M that passes the gate with the record present is answered
\* from D.
C31_InFlightSurvives ==
    /\ [][ armedAt' # armedAt => sends' = sends ]_vars
    /\ [](\A s \in BagToSet(sends) :
             /\ s.pc = "fetch" => ENABLED SendFetched
             /\ s.pc = "send" => ENABLED SendSettled
             /\ s.pc = "sent" => ENABLED SendRecorded)
    /\ [][ \A s \in BagToSet(sends) :
             Leaves(s) =>
                /\ s.pc = "fetch" =>
                      \/ sends' = Moved(s, "send", 0)
                      \/ /\ sends' = Returned(s)
                         /\ \E f \in sendLog' : f.name = s.msg.name
                /\ s.pc = "send" =>
                      \/ /\ sends' = Moved(s, "sent", Len(posted'))
                         /\ Len(posted') = Len(posted) + 1
                         /\ posted'[Len(posted')].origin = Some(s.msg)
                      \/ /\ sends' = Returned(s)
                         /\ SendFailure(s.msg, "send", 0) \in sendLog'
                /\ s.pc = "sent" =>
                      /\ sends' = Moved(s, "react", s.id)
                      /\ s.id \in DOMAIN messageIdToScheduledConfig'
                      /\ messageIdToScheduledConfig'[s.id] = s.msg ]_vars
    /\ [][ \A m \in DOMAIN messageIdToScheduledConfig :
             LET D == messageIdToScheduledConfig[m] IN
             (CopiesIn(m, passes') > CopiesIn(m, passes)
                 /\ D.turnon /\ Len(D.automaticResponses) > 0) =>
                \E h \in BagToSet(handlers') :
                   /\ h.m = m
                   /\ h.pc = "fetchChannel"
                   /\ h.channel = D.responseChannelId
                   /\ \E r \in Range(D.automaticResponses) :
                         h.content = r.content ]_vars

\* The cron job of a definition has fired and its send is suspended at the
\* channel fetch or at channel.send, after a reload has re-armed from a set
\* that does not hold the definition.
C31_Witness ==
    \E s \in BagToSet(sends) :
        /\ s.pc \in {"fetch", "send"}
        /\ armedAt.calls >= 2
        /\ Withdrawn(s.msg)

\* A response was handed to the gateway for a message whose definition is
\* no longer in memory or armed.
C31_AnsweredAfter ==
    \E i \in 1..Len(outbox) :
        /\ Withdrawn(messageIdToScheduledConfig[outbox[i].m])
        /\ outbox[i].channel =
              messageIdToScheduledConfig[outbox[i].m].responseChannelId

(***************************************************************************)
(* Properties of the text of a scheduled send.                             *)
(***************************************************************************)
\* The messages posted by scheduled sends.
Scheduled == { m \in 1..Len(posted) : IsSome(posted[m].origin) }

\* The text the code sends in place of an empty messageContent (line 1087).
NoMessageNotice ==
    "No message exist, please just report this to Arthur ahahaha, look line 200"

\* C32 as stated: every message posted by a scheduled send of definition D
\* is in D's channel and its text is D.messageContent, the empty string
\* included.
C32_Verbatim ==
    \A m \in Scheduled :
        LET D == posted[m].origin[1] IN
        /\ posted[m].channelId = D.channelId
        /\ posted[m].content = D.messageContent

\* C32, amended: every message posted by a scheduled send of definition D
\* is in D's channel; its text is D.messageContent when that is not the
\* empty string, and the fixed notice of line 1087 when it is.  A step that
\* settles a channel.send posts at most one message, of the definition of
\* the send that was suspended there.
C32_TextSent ==
    /\ [](\A m \in Scheduled :
             LET D == posted[m].origin[1] IN
             /\ posted[m].channelId = D.channelId
             /\ posted[m].author = "bot"
             /\ D.messageContent # "" => posted[m].content = D.messageContent
             /\ D.messageContent = "" => posted[m].content = NoMessageNotice)
    /\ [][ posted' # posted =>
             \E s \in BagToSet(sends) :
                /\ s.pc = "send"
                /\ posted' = Append(posted, posted'[Len(posted')])
                /\ posted'[Len(posted')].origin = Some(s.msg) ]_vars

\* The trigger of a definition whose messageContent is the empty string has
\* fired and its send has posted the notice into the definition's channel.
C32_Witness ==
    \E m \in Scheduled :
        /\ posted[m].origin[1].messageContent = ""
        /\ posted[m].content = NoMessageNotice
        /\ posted[m].channelId = posted[m].origin[1].channelId
        /\ m \in DOMAIN messageIdToScheduledConfig

\* The timer of a date definition with a reminder text has fired and its
\* send has posted that text.
C32_DateText ==
    \E m \in Scheduled :
        /\ posted[m].origin[1].type = "date"
        /\ posted[m].content = "remind D"

(***************************************************************************)
(* Properties of the order of the record insertion and the reaction gate.  *)
(***************************************************************************)
\* C33: every message of a scheduled send that a reaction has been consumed
\* for (its id is in respondedMessages) has its record in the map: the gate
\* is never passed for a scheduled message whose record is still missing.
C33_RecordBeforeGate ==
    \A m \in respondedMessages :
        IsSome(posted[m].origin) => m \in DOMAIN messageIdToScheduledConfig

\* The send has been recorded and has ended, the one reaction that passed
\* the gate for its message found no record, no handler is suspended and no
\* response was handed to the gateway: every later reaction on the message
\* is turned away at the gate.
C33_ResponseLost ==
    \E m \in DOMAIN messageIdToScheduledConfig :
        /\ messageIdToScheduledConfig[m].turnon
        /\ Len(messageIdToScheduledConfig[m].automaticResponses) > 0
        /\ m \in respondedMessages
        /\ CopiesIn(m, passes) = 1
        /\ BagToSet(handlers) = {}
        /\ sends = EmptyBag
        /\ Attempts(m) = {}
        /\ errorLog = {}

(***************************************************************************)
(* Properties of a reload that fails.                                      *)
(***************************************************************************)
\* The poller hands the listener a stat with a newer modification time, and
\* the file cannot be read or is no JSON.
FailedReload ==
    /\ watchPrev' # watchPrev
    /\ Stat(file).mtime > watchPrev.mtime
    /\ ~JSONparse(file.text).ok

\* C34: a step in which the watch callback sees a newer modification time
\* and cannot read or parse the file leaves the set in memory, the handles,
\* the registered triggers and the count of scheduleAllMessages calls as
\* they were, and nothing escapes the callback; every cron job that was
\* registered and due can still fire.
C34_FailedReloadKeeps ==
    [][ FailedReload =>
          /\ scheduledMessages' = scheduledMessages
          /\ cronJobs' = cronJobs
          /\ live' = live
          /\ armedAt' = armedAt
          /\ unhandled' = unhandled
          /\ \A h \in live :
                (h.kind = "cron" /\ Due(h.cronStr, now) /\ started < MaxSends)
                    => (ENABLED CronFire)' ]_vars

\* The watcher has seen the newer modification time of a file that cannot
\* be read or parsed; the set in memory is still the one loaded at startup,
\* its triggers are registered, and the cron job of A has fired.
C34_Witness ==
    /\ ~JSONparse(file.text).ok
    /\ watchPrev = Stat(file)
    /\ file.mtime = file.ctime
    /\ file.ctime = 2
    /\ scheduledMessages = <<DefA, DefD>>
    /\ armedAt.calls = 1
    /\ \E h \in live : h.kind = "cron" /\ h.msg = DefA
    /\ \E h \in live : h.kind = "timeout" /\ h.msg = DefD
    /\ unhandled = 0
    /\ now > armedAt.time
    /\ \E s \in BagToSet(sends) : s.msg = DefA

\* The same with something unreadable at the path.
C34_Unreadable ==
    /\ file.text = Unreadable
    /\ watchPrev = Stat(file)
    /\ file.mtime = file.ctime
    /\ scheduledMessages = <<DefA, DefD>>
    /\ live # {}

(***************************************************************************)
(* Properties of the definition a response is decided from.                *)
(***************************************************************************)
\* The definition whose trigger sent message m, as it was when the trigger
\* was armed.
Captured(m) == posted[m].origin[1]

\* C35: whatever the file and the set in memory hold by then, a reaction
\* that passes the gate for a recorded message M leads to a response
\* exactly if the definition captured by the trigger that sent M is enabled
\* and has responses; and every response handed to the gateway goes to the
\* responseChannelId of that definition, with one of its responses as text
\* and with one of its images exactly if it has images enabled.
C35_CapturedDefinition ==
    /\ [](\A i \in 1..Len(outbox) :
             LET e == outbox[i]
                 D == Captured(e.m) IN
             /\ D.turnon
             /\ e.channel = D.responseChannelId
             /\ \E r \in Range(D.automaticResponses) : e.content = r.content
             /\ IF HasImages(D)
                THEN \E g \in Range(D.Images) : e.files = <<g.Imgurl>>
                ELSE e.files = <<>>)
    /\ [][ \A m \in DOMAIN messageIdToScheduledConfig :
             LET D == Captured(m)
                 new == { h \in BagToSet(handlers') :
                            h.m = m /\ h.pc = "fetchChannel"
                            /\ CopiesIn(h, handlers') > CopiesIn(h, handlers) } IN
             CopiesIn(m, passes') > CopiesIn(m, passes) =>
                IF D.turnon /\ HasResponses(D)
                THEN \E h \in new :
                        /\ h.channel = D.responseChannelId
                        /\ \E r \in Range(D.automaticResponses) :
                              h.content = r.content
                ELSE new = {} ]_vars

\* The file and the set in memory hold a disabled copy of definition A, the
\* triggers have been re-armed from it, and a response to a reaction on the
\* message sent for A was handed to the gateway, for A's response channel.
C35_Witness ==
    /\ scheduledMessages = <<DefOff>>
    /\ JSONparse(file.text).value = <<DefOff>>
    /\ armedAt.calls >= 2
    /\ live = {}
    /\ \E i \in 1..Len(outbox) :
          /\ Captured(outbox[i].m) = DefA
          /\ outbox[i].channel = DefA.responseChannelId

\* The same after definition A was replaced by definition B.
C35_Replaced ==
    /\ scheduledMessages = <<DefB>>
    /\ armedAt.calls >= 2
    /\ \E i \in 1..Len(outbox) :
          /\ Captured(outbox[i].m) = DefA
          /\ outbox[i].channel = DefA.responseChannelId

\* The same after definition A was deleted.
C35_Deleted ==
    /\ scheduledMessages = <<>>
    /\ armedAt.calls >= 2
    /\ \E i \in 1..Len(outbox) :
          /\ Captured(outbox[i].m) = DefA
          /\ outbox[i].channel = DefA.responseChannelId

(***************************************************************************)
(* Properties of a date definition across re-arming.                       *)
(***************************************************************************)
\* The sends started for definition d (they stay suspended at the channel
\* fetch where the specification has no resumption of sends).
SendsOf(d) == CopiesIn([msg |-> d, pc |-> "fetch", id |-> 0], sends)

\* The timestamps of d that have come.
Passed(d) == { T \in Stamps(d) : T <= now }

\* C36: for an enabled date definition that is in the persisted set, no
\* more sends have been started than it has timestamps: whatever the number
\* of scheduleAllMessages calls, before and after a timestamp, a timestamp
\* starts at most one send.
C36_OncePerTimestamp ==
    \A d \in Range(Persisted(file)) :
        ValidDate(d) => SendsOf(d) <= Cardinality(Stamps(d))

\* Every timestamp of d is, at every instant the clock visits, at most the
\* longest delay a timer holds ahead.
InRange(d) ==
    \A T \in Stamps(d), t \in TimerPoints :
        T - t <= TIMEOUT_MAX \div MsPerSec

\* For the definitions whose delays the timer holds: no more sends have
\* been started than the definition has timestamps that have come; a timer
\* that is registered is for a timestamp after the scheduleAllMessages call
\* that registered it (a re-arm after the timestamp registers none); and a
\* timer that fires does so at or after its timestamp.
C36_WithinRange ==
    /\ [](\A d \in Range(Persisted(file)) :
             (ValidDate(d) /\ InRange(d)) =>
                 SendsOf(d) <= Cardinality(Passed(d)))
    /\ [](\A h \in live :
             (h.kind = "timeout" /\ InRange(h.msg)) => h.at > armedAt.time)
    /\ [][ \A h \in live :
             (h.kind = "timeout" /\ InRange(h.msg) /\ h \notin live'
                 /\ started' > started) => now >= h.at ]_vars

\* Both timestamps of definition D have started a send, and the triggers
\* were re-armed between the two, after the lead timer had fired.
C36_RearmedBetween ==
    /\ SendsOf(DefD) = 2
    /\ armedAt.calls = 2
    /\ armedAt.time >= remindDate(DefD)
    /\ armedAt.time < dateObj(DefD)

\* The triggers were re-armed after the main timestamp of definition D, the
\* definition still being in the file, and no timer is registered.
C36_RearmedAfter ==
    /\ DefD \in Range(Persisted(file))
    /\ armedAt.calls = 2
    /\ armedAt.time >= dateObj(DefD)
    /\ \A h \in live : h.kind = "cron"
    /\ live # {}


(***************************************************************************)
(* C37                                                                     *)
(***************************************************************************)
\* The messages of the bot in a scheduled channel.
Reminders ==
    { m \in 1..Len(posted) :
        posted[m].author = "bot" /\ posted[m].channelId \in ScheduledChannels }

\* C37: in the hardcoded variant, for every message of the bot in a
\* scheduled channel, repeated heart reactions by users cause at most one
\* automatic response send.
C37_AtMostOneResponse ==
    \A m \in Reminders : Cardinality(Attempts(m)) <= 1

\* The hardcoded variant never puts a message into respondedMessages.
C37_NothingRemembered == respondedMessages = {}

\* Two responses were sent for one reminder, and no handler is suspended.
C37_TwoResponses ==
    \E m \in Reminders :
        /\ Cardinality(Attempts(m)) = 2
        /\ BagToSet(handlers) = {}


(***************************************************************************)
(* C38                                                                     *)
(***************************************************************************)
\* A path parameter that is all digits.
Numeral(cs) == cs # <<>> /\ \A i \in 1..Len(cs) : IsDigit(cs[i])

\* A path parameter whose index is no number: it does not start with a
\* digit, nor with a sign before a digit.
NotANumber(cs) ==
    ~ \/ cs # <<>> /\ IsDigit(cs[1])
      \/ Len(cs) > 1 /\ cs[1] \in {"-", "+"} /\ IsDigit(cs[2])

\* A path parameter whose index is negative, no number, or at least n.
OutOfRange(cs, n) ==
    \/ NotANumber(cs)
    \/ Len(cs) > 1 /\ cs[1] = "-" /\ Numeral(Tail(cs)) /\ ValueOf(Tail(cs)) > 0
    \/ Numeral(cs) /\ ValueOf(cs) >= n

\* C38: a PUT or DELETE whose index is negative, not a number, or at least
\* the length of the persisted sequence is answered 404 with success false
\* and leaves the file as it was; a PUT or DELETE on a file that cannot be
\* read or parsed is answered 500 with success false and writes nothing.
C38_RejectedUntouched ==
    [][ LET P == JSONparse(file.text)
        IN  ((req' # req \/ res' # res \/ file' # file)
                /\ req'.method \in {"PUT", "DELETE"}) =>
              /\ ~P.ok =>
                    /\ res'.status = 500 /\ ~res'.success /\ res'.data = None
                    /\ file' = file
              /\ (P.ok /\ OutOfRange(req'.index[1], Len(P.value))) =>
                    /\ res'.status = 404 /\ ~res'.success /\ res'.data = None
                    /\ file' = file ]_vars

\* A PUT whose index is no number was turned away from a file of two
\* definitions.
C38_Witness ==
    /\ req.method = "PUT"
    /\ req.index = Some(<<"a">>)
    /\ res.status = 404
    /\ Len(Persisted(file)) = 2

\* A DELETE with a negative index was turned away.
C38_Negative ==
    /\ req.method = "DELETE"
    /\ req.index = Some(<<"-", "1">>)
    /\ res.status = 404
    /\ Len(Persisted(file)) = 2

\* A DELETE at the length of the sequence was turned away.
C38_AtLength ==
    /\ req.method = "DELETE"
    /\ req.index = Some(<<"2">>)
    /\ res.status = 404
    /\ Len(Persisted(file)) = 2

\* A PUT on a file that cannot be read was answered with an error.
C38_ReadFailed ==
    /\ req.method = "PUT"
    /\ file.text = Unreadable
    /\ res.status = 500

\* A DELETE on a file that is no JSON was answered with an error.
C38_ParseFailed ==
    /\ req.method = "DELETE"
    /\ file.text = Garbage
    /\ res.status = 500

\* A PUT whose parameter is a numeral followed by text has replaced the
\* definition at the index the numeral denotes.
C38_PrefixAccepted ==
    /\ req.method = "PUT"
    /\ req.index = Some(<<"1", "a">>)
    /\ res.status = 200


(***************************************************************************)
(* C39                                                                     *)
(***************************************************************************)
\* Midnight of the first Monday after the day of the instant t.
FirstMondayAfter(t) ==
    LET today == t \div SecPerDay
        k == CHOOSE j \in 1..7 :
                /\ WeekdayOf((today + j) * SecPerDay) = 1
                /\ \A i \in 1..j - 1 : WeekdayOf((today + i) * SecPerDay) # 1
    IN  (today + k) * SecPerDay

\* The handler invocations a step suspends at the fetch of the climbing
\* response channel.
Composed(h) ==
    /\ h.pc = "fetchChannel"
    /\ h.channel = "response-climbing"
    /\ CopiesIn(h, handlers') > CopiesIn(h, handlers)

\* C39: whenever the hardcoded variant composes a climbing response, on a
\* day of the week d, daysUntilNextMonday lies in 1..7, d plus it is 1
\* modulo 7, and the date the response announces is the first Monday
\* strictly after today.
C39_NextMonday ==
    [][ \A h \in BagToSet(handlers') :
          Composed(h) =>
             LET d == WeekdayOf(now)
                 k == daysUntilNextMonday(d)
             IN  /\ k \in 1..7
                 /\ (d + k) % 7 = 1
                 /\ nextMondayDate(now) = FirstMondayAfter(now)
                 /\ nextMondayDate(now) > now
                 /\ h.content = "climbing " \o toLocaleDateString(FirstMondayAfter(now))
      ]_vars

\* On Monday 30 December 2024 a climbing response was sent that announces
\* Monday 6 January 2025, seven days ahead.
C39_Witness ==
    /\ now = NewDate(2024, 11, 30, 12, 0, 0)
    /\ WeekdayOf(now) = 1
    /\ \E i \in 1..Len(outbox) : outbox[i].content = "climbing Monday 06/01"

\* On a Sunday a climbing response was sent that announces the next day.
C39_OnSunday ==
    /\ now = NewDate(2025, 0, 5, 12, 0, 0)
    /\ WeekdayOf(now) = 0
    /\ \E i \in 1..Len(outbox) : outbox[i].content = "climbing Monday 06/01"

=============================================================================
